---- MODULE Spec2Model ----
(***************************************************************************)
(* State-machine model of the ReAct agent: the reliability wrapper         *)
(* (retry + circuit breaker) of Agent.executeToolWithRetry, the agent     *)
(* loop of Agent.run / Agent.resume with the JsonStore, the dynamic tool  *)
(* cache, the lazy loader behind ToolRegistry.getOrLoad and the           *)
(* initialization of UltraScaleToolRegistry.                              *)
(*                                                                         *)
(* An `await` of the TypeScript source is a point where other callbacks   *)
(* may run.  An action below is the code that runs between two awaits at  *)
(* which a callback touching the same state can run: the agent loop is    *)
(* cut at the awaits of the planner, the argument inferencer, the human   *)
(* prompts, tool.run and the backoff timer (the JsonStore writes are      *)
(* synchronous); the caches and registries are cut at every await.        *)
(* Time is a discrete clock `now` (one tick = one unit of Date.now()).     *)
(***************************************************************************)
EXTENDS Integers, Sequences, FiniteSets, TLC

(***************************************************************************)
(* Bounds of the model                                                     *)
(***************************************************************************)
\* the clock runs from 1 to MaxTime
MaxTime == 6
\* breaker / retry configurations range over 1..MaxThreshold, 1..MaxCooldown,
\* 0..MaxRetries
MaxThreshold == 2
MaxCooldown == 2
MaxRetries == 2
\* base delays of the backoff range over 1..MaxBaseDelay
MaxBaseDelay == 2

Tools == {"calculator", "write_file"}
\* unnamed/part_008:15 (write_file is sensitive), src/tools/impl/calculator.ts
SensitiveTools == {"write_file"}

VARIABLES
  now,          \* Date.now()
  toolCfg,      \* tool -> [retries, baseDelayMs, failureThreshold, cooldownMs]
  breaker,      \* Agent.breaker: tool -> [failures, openedUntil] (0 = undefined)
  exec,         \* the executeToolWithRetry call in flight, if any
  gStreak,      \* history: failed executes of a tool since its last success / opening
  gOpenUntil,   \* history: end of the cooldown started by the threshold-th failure
  mode,         \* cfg.APPROVAL_MODE
  run,          \* the Run object held by run() / resume(): [status, steps]
  disk,         \* the run file written by JsonStore.save: [status, steps]
  pc,           \* where run() / resume() stands
  stepNo,       \* the loop counter of the for loop (1-based)
  action,       \* the PlannerAction being carried out
  parsedOk,     \* parsed.success
  interrupted,  \* Agent.interrupted
  abort,        \* why run() / resume() rejected, if it did
  calls,        \* history: number of run() / resume() calls made
  entry,        \* history: the last call made, "run" or "resume"
  actNo,        \* history: number of planner calls made on this run
  plannerCalls, \* history: planner calls made by the current run() / resume()
  toolRunActs,  \* history: the actions for which tool.run was invoked
  askedActs,    \* history: the actions for which the human was asked the question
  everPaused,   \* history: the run's status has been paused
  pauseCause,   \* history: why the run was last paused
  inflightIntr, \* history: the action whose tool was in flight when SIGINT came
  ioFailed,     \* history: a write of the run file has failed
  cache,        \* DynamicToolCache.cache: the entries in insertion order
  loadPromises, \* DynamicToolCache.loadPromises: tool -> where its load stands
  toolBytes,    \* tool -> estimateMemorySize(tool)
  registryTools,\* ToolRegistry.tools: the names registered
  loadedTools,  \* LazyToolLoader.loadedTools
  getter,       \* caller -> its getOrLoad call: [pc, name, result]
  loaderCalls,  \* history: tool -> number of imports begun by loadTool
  loadsDone,    \* history: tool -> number of imports that resolved
  initialized,  \* UltraScaleToolRegistry.initialized
  toolMetadata, \* UltraScaleToolRegistry.toolMetadata: the names cataloged
  index,        \* VectorToolSearch.index: the tool names of its entries
  initRuns,     \* history: number of runs of initialize that completed
  user,         \* caller -> its call of the registry: [pc, op, result, ...]
  pTask,        \* the task given to Planner.proposeNext, by what its tests see of it
  pNames,       \* the names of the candidates returned by registry.search
  pHistory,     \* the history lines of the run, by what the planner's tests see
  pAction,      \* the PlannerAction returned by the last proposeNext, if any
  pSteps,       \* the steps appended to the run, by what stepsToHistory reads
  pLive,        \* the history that the run holds if it is never interrupted
  pResumed,     \* the run was interrupted and resumed
  sRun,         \* JsonStore: the Run object that the caller of the store holds
  sFile,        \* JsonStore: the content of the run file
  sLast,        \* history: the last call of the store, and updatedAt before it
  preloadCall,  \* a registry.search / optimizeForTask call with its preload
  scan,         \* ToolCatalog: the catalog and the scans made
  embIndex,     \* ToolRegistry.buildEmbeddingIndex: the tools, the file, the vectors
  files,        \* write_file: the file system and the last call
  cliRun,       \* the run command: flags, environment and effective config
  executor,     \* ParallelExecutor: the tasks of executeParallel and its maps
  collab,       \* MultiAgentCoordinator.collaborate: the children and the parent
  replaceCall   \* text_replace: the arguments and the result of the last call

breakerVars == <<toolCfg, breaker, exec, gStreak, gOpenUntil>>
agentVars == <<mode, run, disk, pc, stepNo, action, parsedOk, interrupted, abort,
               calls, entry, actNo, plannerCalls, toolRunActs, askedActs,
               everPaused, pauseCause, inflightIntr, ioFailed>>
cacheVars == <<cache, loadPromises, toolBytes>>
lazyVars == <<registryTools, loadedTools, getter, loaderCalls, loadsDone>>
registryVars == <<initialized, toolMetadata, index, initRuns, user>>
plannerVars == <<pTask, pNames, pHistory, pAction, pSteps, pLive, pResumed>>
storeVars == <<sRun, sFile, sLast>>
coreVars == <<now, breakerVars, agentVars, cacheVars, lazyVars, registryVars,
              plannerVars, storeVars>>
utilVars == <<preloadCall, scan, embIndex, files, cliRun, executor, collab, replaceCall>>
toolingVars == <<cacheVars, lazyVars, registryVars, plannerVars, storeVars, utilVars>>
vars == <<now, breakerVars, agentVars, toolingVars>>

(***************************************************************************)
(* Reliability wrapper: Agent.executeToolWithRetry                         *)
(***************************************************************************)
NoExec == [phase |-> "none", tool |-> "none", attempt |-> 0, failures |-> 0,
           wakeAt |-> 0, startedAt |-> 0, runs |-> 0, result |-> "none",
           inWindow |-> FALSE]

\* 2^n
RECURSIVE Pow2(_)
Pow2(n) == IF n = 0 THEN 1 ELSE 2 * Pow2(n - 1)

\* line 890: state.openedUntil && now < state.openedUntil
circuitOpen_Latched(state, t0) == state.openedUntil # 0
circuitOpen_Inverted(state, t0) == state.openedUntil # 0 /\ t0 > state.openedUntil
circuitOpen(state, t0) == state.openedUntil # 0 /\ t0 < state.openedUntil

\* line 900: success resets the breaker
breakerAfterSuccess == [failures |-> 0, openedUntil |-> 0]

\* lines 911-917: record the failure and maybe open the circuit
breakerAfterFailure_KeepsCount(failures0, cfg, t0) ==
  LET failures == failures0 + 1 IN
  IF failures >= cfg.failureThreshold
    THEN [failures |-> failures, openedUntil |-> t0 + cfg.cooldownMs]
    ELSE [failures |-> failures, openedUntil |-> 0]
breakerAfterFailure(failures0, cfg, t0) ==
  LET failures == failures0 + 1 IN
  IF failures >= cfg.failureThreshold
    THEN [failures |-> 0, openedUntil |-> t0 + cfg.cooldownMs]
    ELSE [failures |-> failures, openedUntil |-> 0]

\* line 905: baseDelayMs * 2^attempt
backoffDelay_Constant(cfg, attempt) == cfg.baseDelayMs
backoffDelay(cfg, attempt) == cfg.baseDelayMs * Pow2(attempt)

Execute_Begin_Extending(t) ==
  LET state == breaker[t] IN
  /\ exec.phase = "none"
  /\ exec' = IF circuitOpen(state, now)
               THEN [NoExec EXCEPT !.phase = "done", !.tool = t, !.startedAt = now,
                                   !.result = "circuit_open",
                                   !.inWindow = (now < gOpenUntil[t])]
               ELSE [NoExec EXCEPT !.phase = "running", !.tool = t, !.startedAt = now,
                                   !.failures = state.failures, !.runs = 1,
                                   !.inWindow = (now < gOpenUntil[t])]
  /\ breaker' = IF circuitOpen(state, now)
                  THEN [breaker EXCEPT ![t].openedUntil = now + toolCfg[t].cooldownMs]
                  ELSE breaker
  /\ UNCHANGED <<toolCfg, gStreak, gOpenUntil>>

\* lines 886-898: read the breaker state, reject on an open circuit, else make
\* the first attempt (tool.run is invoked and awaited)
Execute_Begin(t) ==
  LET state == breaker[t] IN
  /\ exec.phase = "none"
  /\ exec' = IF circuitOpen(state, now)
               THEN [NoExec EXCEPT !.phase = "done", !.tool = t, !.startedAt = now,
                                   !.result = "circuit_open",
                                   !.inWindow = (now < gOpenUntil[t])]
               ELSE [NoExec EXCEPT !.phase = "running", !.tool = t, !.startedAt = now,
                                   !.failures = state.failures, !.runs = 1,
                                   !.inWindow = (now < gOpenUntil[t])]
  /\ UNCHANGED <<toolCfg, breaker, gStreak, gOpenUntil>>

\* lines 898-901: tool.run resolved
Execute_RunOk ==
  /\ exec.phase = "running"
  /\ breaker' = [breaker EXCEPT ![exec.tool] = breakerAfterSuccess]
  /\ exec' = [exec EXCEPT !.phase = "done", !.result = "ok"]
  /\ gStreak' = [gStreak EXCEPT ![exec.tool] = 0]
  /\ UNCHANGED <<toolCfg, gOpenUntil>>

\* lines 902-907: tool.run rejected and a retry is left: sleep
Execute_RunFailRetry ==
  /\ exec.phase = "running"
  /\ exec.attempt # toolCfg[exec.tool].retries
  /\ exec' = [exec EXCEPT !.phase = "sleeping",
                          !.wakeAt = now + backoffDelay(toolCfg[exec.tool], exec.attempt)]
  /\ UNCHANGED <<toolCfg, breaker, gStreak, gOpenUntil>>

\* lines 906-907, 896-898: the timer fired; next attempt
Execute_Backoff_Overlapping ==
  /\ exec.phase \in {"running", "sleeping"}
  /\ exec.attempt < toolCfg[exec.tool].retries
  /\ exec' = [exec EXCEPT !.phase = "running", !.attempt = @ + 1, !.runs = @ + 1]
  /\ UNCHANGED <<toolCfg, breaker, gStreak, gOpenUntil>>

Execute_Backoff ==
  /\ exec.phase = "sleeping"
  /\ now >= exec.wakeAt
  /\ exec' = [exec EXCEPT !.phase = "running", !.attempt = @ + 1, !.runs = @ + 1]
  /\ UNCHANGED <<toolCfg, breaker, gStreak, gOpenUntil>>

\* lines 902-904, 910-918: the last attempt failed
Execute_RunFailLast ==
  /\ exec.phase = "running"
  /\ exec.attempt = toolCfg[exec.tool].retries
  /\ breaker' = [breaker EXCEPT ![exec.tool] =
                   breakerAfterFailure(exec.failures, toolCfg[exec.tool], now)]
  /\ exec' = [exec EXCEPT !.phase = "done", !.result = "error"]
  /\ LET t == exec.tool
         s == gStreak[t] + 1
     IN IF s >= toolCfg[t].failureThreshold
          THEN /\ gStreak' = [gStreak EXCEPT ![t] = 0]
               /\ gOpenUntil' = [gOpenUntil EXCEPT ![t] = now + toolCfg[t].cooldownMs]
          ELSE /\ gStreak' = [gStreak EXCEPT ![t] = s]
               /\ UNCHANGED gOpenUntil
  /\ UNCHANGED toolCfg

\* the clock advances
Tick ==
  /\ now < MaxTime
  /\ now' = now + 1

ToolCfgs ==
  [retries : 0..MaxRetries, baseDelayMs : 1..MaxBaseDelay,
   failureThreshold : 1..MaxThreshold, cooldownMs : 1..MaxCooldown]

BreakerInit ==
  /\ toolCfg \in [Tools -> ToolCfgs]
  /\ breaker = [t \in Tools |-> [failures |-> 0, openedUntil |-> 0]]
  /\ exec = NoExec
  /\ gStreak = [t \in Tools |-> 0]
  /\ gOpenUntil = [t \in Tools |-> 0]

(***************************************************************************)
(* DynamicToolCache (src/src/tools/dynamic_cache.ts).  The limits are scaled    *)
(* down: the source has MAX_CACHE_SIZE = 100 entries, 50 MiB and an        *)
(* idle timeout of 10 minutes; one tick of the clock stands for 5 minutes. *)
(***************************************************************************)
CacheTools == {"calculator", "read_file", "web_search"}
\* MAX_CACHE_SIZE (line 26), scaled
MaxCacheSize == 2
\* MAX_MEMORY_MB * 1024 * 1024 (lines 27, 103), scaled: in units of memory
MaxCacheBytes == 3
\* the estimated size of a tool is 1..MaxToolBytes units
MaxToolBytes == 2
\* IDLE_TIMEOUT (line 28), in ticks
IdleTimeout == 2
\* accessCount is counted up to MaxAccess
MaxAccess == 2

CacheNames(c) == { c[i].name : i \in DOMAIN c }

\* part_002 lines 130-140 (part_000 lines 94-104): the category of a tool, by
\* its name
categorize(name) ==
  IF name = "calculator" THEN "core"
  ELSE IF name \in {"read_file", "file_read"} THEN "file"
  ELSE IF name \in {"web_search", "text_search"} THEN "text"
  ELSE IF name = "web_fetch" THEN "web"
  ELSE "custom"

\* lines 159-162
RECURSIVE getTotalMemoryUsage(_)
getTotalMemoryUsage(c) ==
  IF c = <<>> THEN 0 ELSE Head(c).memorySize + getTotalMemoryUsage(Tail(c))

\* line 126: lastAccess - accessCount * 60000, times 5 (a tick is 5 * 60000 ms)
Score(e) == 5 * e.lastAccess - e.accessCount

\* lines 120-134: the first entry, in insertion order, of the least score below
\* Date.now(); 0 stands for null
findLRUTool(c, t0) ==
  LET cand == { i \in DOMAIN c : Score(c[i]) < 5 * t0 } IN
  IF cand = {} THEN 0
  ELSE CHOOSE i \in cand :
         \A j \in cand : \/ Score(c[i]) < Score(c[j])
                         \/ Score(c[i]) = Score(c[j]) /\ i <= j

RemoveAt(c, i) == SubSeq(c, 1, i - 1) \o SubSeq(c, i + 1, Len(c))

\* lines 101-118: currentMemory is computed once, before the loop
RECURSIVE ensureCacheSpace(_, _, _, _)
ensureCacheSpace(c, currentMemory, requiredMemory, t0) ==
  IF /\ \/ Len(c) >= MaxCacheSize
        \/ currentMemory + requiredMemory > MaxCacheBytes
     /\ Len(c) > 0
    THEN LET lruTool == findLRUTool(c, t0) IN
         IF lruTool # 0
           THEN ensureCacheSpace(RemoveAt(c, lruTool), currentMemory, requiredMemory, t0)
           ELSE c
    ELSE c

\* lines 39-48: get of a cached tool
Cache_GetHit(name) ==
  /\ \E i \in DOMAIN cache :
       /\ cache[i].name = name
       /\ cache[i].accessCount < MaxAccess
       /\ cache' = [cache EXCEPT ![i].lastAccess = now, ![i].accessCount = @ + 1]
  /\ UNCHANGED <<loadPromises, toolBytes>>
  /\ UNCHANGED <<now, breakerVars, agentVars, lazyVars, registryVars, plannerVars,
               storeVars, utilVars>>

\* lines 50-58, 68-69: get of a tool that is neither cached nor being loaded:
\* loadTool is called, it calls toolLoader and awaits it
Cache_GetMiss(name) ==
  /\ name \notin CacheNames(cache)
  /\ loadPromises[name] = "none"
  /\ loadPromises' = [loadPromises EXCEPT ![name] = "loading"]
  /\ UNCHANGED <<cache, toolBytes>>
  /\ UNCHANGED <<now, breakerVars, agentVars, lazyVars, registryVars, plannerVars,
               storeVars, utilVars>>

\* lines 89-99 (177-194): preloadSimilar / smartPreload call get for up to three
\* (five) tools that are not cached, at once
Cache_Preload(names) ==
  /\ names # {}
  /\ Cardinality(names) <= 3
  /\ names \cap CacheNames(cache) = {}
  /\ \E n \in names : loadPromises[n] = "none"
  /\ loadPromises' = [n \in CacheTools |->
                        IF n \in names /\ loadPromises[n] = "none"
                          THEN "loading" ELSE loadPromises[n]]
  /\ UNCHANGED <<cache, toolBytes>>
  /\ UNCHANGED <<now, breakerVars, agentVars, lazyVars, registryVars, plannerVars,
               storeVars, utilVars>>

\* lines 69-70, 60-65: toolLoader resolved with null
Cache_LoaderNull(name) ==
  /\ loadPromises[name] = "loading"
  /\ loadPromises' = [loadPromises EXCEPT ![name] = "none"]
  /\ UNCHANGED <<cache, toolBytes>>
  /\ UNCHANGED <<now, breakerVars, agentVars, lazyVars, registryVars, plannerVars,
               storeVars, utilVars>>

\* lines 69-81: toolLoader resolved with the tool: the entry is made and
\* ensureCacheSpace runs; its result is awaited
Cache_LoaderDone(name) ==
  /\ loadPromises[name] = "loading"
  /\ cache' = ensureCacheSpace(cache, getTotalMemoryUsage(cache), toolBytes[name], now)
  /\ loadPromises' = [loadPromises EXCEPT ![name] = "inserting"]
  /\ UNCHANGED toolBytes
  /\ UNCHANGED <<now, breakerVars, agentVars, lazyVars, registryVars, plannerVars,
               storeVars, utilVars>>

\* lines 83-86, 60-65: after the await of line 81: cache.set
Cache_Insert(name) ==
  /\ loadPromises[name] = "inserting"
  /\ cache' = Append(cache, [name |-> name, lastAccess |-> now, accessCount |-> 1,
                             memorySize |-> toolBytes[name]])
  /\ loadPromises' = [loadPromises EXCEPT ![name] = "none"]
  /\ UNCHANGED toolBytes
  /\ UNCHANGED <<now, breakerVars, agentVars, lazyVars, registryVars, plannerVars,
               storeVars, utilVars>>

\* lines 136-149: the sweep of the idle entries
Cache_Cleanup ==
  /\ \E i \in DOMAIN cache : now - cache[i].lastAccess > IdleTimeout
  /\ cache' = SelectSeq(cache, LAMBDA e : ~(now - e.lastAccess > IdleTimeout))
  /\ UNCHANGED <<loadPromises, toolBytes>>
  /\ UNCHANGED <<now, breakerVars, agentVars, lazyVars, registryVars, plannerVars,
               storeVars, utilVars>>

CacheIdle ==
  /\ cache = <<>>
  /\ loadPromises = [n \in CacheTools |-> "none"]

(***************************************************************************)
(* ToolRegistry.getOrLoad (src/src/index.ts) over LazyToolLoader           *)
(* (src/src/tools/lazy_loader.ts)                                          *)
(***************************************************************************)
\* the callers of getOrLoad are 1..MaxCallers
MaxCallers == 2
\* loadTool is invoked at most MaxLoads times for a tool
MaxLoads == 3

\* LazyToolLoader.toolPaths
toolPaths == {"calculator", "web_search"}
LazyNames == toolPaths \cup {"no_such_tool"}
Callers == 1..MaxCallers

\* index.ts lines 467-470, lazy_loader.ts lines 32-46: getOrLoad(name)
GetOrLoad_Call(p, name) ==
  /\ getter[p].pc = "idle"
  /\ IF name \in registryTools
       THEN /\ getter' = [getter EXCEPT ![p] = [pc |-> "idle", name |-> name,
                                                 result |-> "tool"]]
            /\ UNCHANGED loaderCalls
       ELSE IF name \in loadedTools
         THEN /\ getter' = [getter EXCEPT ![p] = [pc |-> "got_tool", name |-> name,
                                                   result |-> "none"]]
              /\ UNCHANGED loaderCalls
         ELSE IF name \notin toolPaths
           THEN /\ getter' = [getter EXCEPT ![p] = [pc |-> "got_null", name |-> name,
                                                     result |-> "none"]]
                /\ UNCHANGED loaderCalls
           ELSE /\ loaderCalls[name] < MaxLoads
                /\ getter' = [getter EXCEPT ![p] = [pc |-> "importing", name |-> name,
                                                     result |-> "none"]]
                /\ loaderCalls' = [loaderCalls EXCEPT ![name] = @ + 1]
  /\ UNCHANGED <<registryTools, loadedTools, loadsDone>>
  /\ UNCHANGED <<now, breakerVars, agentVars, cacheVars, registryVars, plannerVars,
               storeVars, utilVars>>

\* lazy_loader.ts lines 46-49: the import resolved
Import_Resolved(p) ==
  /\ getter[p].pc = "importing"
  /\ loadedTools' = loadedTools \cup {getter[p].name}
  /\ loadsDone' = [loadsDone EXCEPT ![getter[p].name] = @ + 1]
  /\ getter' = [getter EXCEPT ![p].pc = "got_tool"]
  /\ UNCHANGED <<registryTools, loaderCalls>>
  /\ UNCHANGED <<now, breakerVars, agentVars, cacheVars, registryVars, plannerVars,
               storeVars, utilVars>>

\* lazy_loader.ts lines 50-53: the import rejected: null
Import_Rejected(p) ==
  /\ getter[p].pc = "importing"
  /\ getter' = [getter EXCEPT ![p].pc = "got_null"]
  /\ UNCHANGED <<registryTools, loadedTools, loaderCalls, loadsDone>>
  /\ UNCHANGED <<now, breakerVars, agentVars, cacheVars, registryVars, plannerVars,
               storeVars, utilVars>>

\* index.ts lines 472-476: the tool is enhanced and registered, the embedding
\* index is rebuilt
GetOrLoad_Register(p) ==
  /\ getter[p].pc = "got_tool"
  /\ registryTools' = registryTools \cup {getter[p].name}
  /\ getter' = [getter EXCEPT ![p].pc = "indexing"]
  /\ UNCHANGED <<loadedTools, loaderCalls, loadsDone>>
  /\ UNCHANGED <<now, breakerVars, agentVars, cacheVars, registryVars, plannerVars,
               storeVars, utilVars>>

\* index.ts line 476: the index is rebuilt, the tool is returned
GetOrLoad_Return(p) ==
  /\ getter[p].pc = "indexing"
  /\ getter' = [getter EXCEPT ![p].pc = "idle", ![p].result = "tool"]
  /\ UNCHANGED <<registryTools, loadedTools, loaderCalls, loadsDone>>
  /\ UNCHANGED <<now, breakerVars, agentVars, cacheVars, registryVars, plannerVars,
               storeVars, utilVars>>

\* index.ts line 478: undefined
GetOrLoad_Undefined(p) ==
  /\ getter[p].pc = "got_null"
  /\ getter' = [getter EXCEPT ![p].pc = "idle", ![p].result = "undefined"]
  /\ UNCHANGED <<registryTools, loadedTools, loaderCalls, loadsDone>>
  /\ UNCHANGED <<now, breakerVars, agentVars, cacheVars, registryVars, plannerVars,
               storeVars, utilVars>>

LazyIdle ==
  /\ registryTools = {}
  /\ loadedTools = {}
  /\ getter = [p \in Callers |-> [pc |-> "idle", name |-> "none", result |-> "none"]]
  /\ loaderCalls = [n \in LazyNames |-> 0]
  /\ loadsDone = [n \in LazyNames |-> 0]

(***************************************************************************)
(* UltraScaleToolRegistry (src/unnamed/part_002) with the index of         *)
(* VectorToolSearch (src/unnamed/part_011)                                 *)
(***************************************************************************)
\* the tool files of the impl directory, in the order readdir gives them
Catalog == <<"calculator", "web_search">>
CatalogNames == { Catalog[i] : i \in DOMAIN Catalog }
\* the callers of the registry are 1..MaxUsers
MaxUsers == 2
Users == 1..MaxUsers
\* the similarity of a tool to a query is 1..MaxSimilarity
MaxSimilarity == 2
\* the k of a search (vectorSearchTopK, part_002 line 30, is 15)
SearchTopK == 2

RegistryOps == {"initialize", "search", "getOrLoad"}

NoDuplicates(s) == \A i, j \in DOMAIN s : i # j => s[i] # s[j]

\* part_011 lines 81-94: the index entries sorted by descending score (the sort
\* is stable), the tool names of the first topK
RECURSIVE SortedBySimilarity(_, _, _)
SortedBySimilarity(idx, entries, sim) ==
  IF entries = {} THEN <<>>
  ELSE LET best == CHOOSE i \in entries :
                     \A j \in entries : \/ sim[idx[i]] > sim[idx[j]]
                                        \/ sim[idx[i]] = sim[idx[j]] /\ i <= j
       IN <<idx[best]>> \o SortedBySimilarity(idx, entries \ {best}, sim)

vectorSearch(idx, sim, topK) ==
  LET sorted == SortedBySimilarity(idx, DOMAIN idx, sim) IN
  SubSeq(sorted, 1, IF Len(sorted) < topK THEN Len(sorted) ELSE topK)

\* a caller that is not in a call of the registry.  k: the topK of its search;
\* query: the similarity of each tool to its query; names: the result of the
\* vector search; todo: the names not yet got from the cache; loaded
\* (history): the tools whose load from source the call has begun
NoCall ==
  [pc |-> "idle", op |-> "none", result |-> <<>>, k |-> 0,
   query |-> [n \in CatalogNames |-> 0], names |-> <<>>, todo |-> <<>>, loaded |-> {}]

\* the first n elements of a sequence
FirstN(s, n) == SubSeq(s, 1, IF Len(s) < n THEN Len(s) ELSE n)

\* part_002 lines 46-53, 178-179, 184-185: a call of initialize, search or
\* getOrLoad; while the registry is not initialized it runs initialize, which
\* awaits the scan of the tool files
Registry_Call(p, op, k) ==
  /\ user[p].pc = "idle"
  /\ op # "search" => k = SearchTopK
  /\ user' = [user EXCEPT ![p] =
               [NoCall EXCEPT !.pc = IF ~initialized THEN "scanning"
                                     ELSE IF op = "search" THEN "searching" ELSE "idle",
                              !.op = op, !.k = k]]
  /\ UNCHANGED <<initialized, toolMetadata, index, initRuns>>
  /\ UNCHANGED <<now, breakerVars, agentVars, cacheVars, lazyVars, plannerVars,
               storeVars, utilVars>>

\* part_002 lines 82-101, 56-63; part_011 lines 24-33: the scan fills
\* toolMetadata; buildIndex is called with its tools and awaits the embeddings
Registry_Scanned(p) ==
  /\ user[p].pc = "scanning"
  /\ toolMetadata' = toolMetadata \cup CatalogNames
  /\ user' = [user EXCEPT ![p].pc = "indexing"]
  /\ UNCHANGED <<initialized, index, initRuns>>
  /\ UNCHANGED <<now, breakerVars, agentVars, cacheVars, lazyVars, plannerVars,
               storeVars, utilVars>>

\* part_011 lines 33-49: the entries of the batch are pushed (the tools make
\* one batch of 20); part_002 lines 65-72: the core tools are preloaded and the
\* cache is warmed up; both are awaited
Registry_Indexed(p) ==
  /\ user[p].pc = "indexing"
  /\ index' = index \o Catalog
  /\ user' = [user EXCEPT ![p].pc = "warming"]
  /\ UNCHANGED <<initialized, toolMetadata, initRuns>>
  /\ UNCHANGED <<now, breakerVars, agentVars, cacheVars, lazyVars, plannerVars,
               storeVars, utilVars>>

\* part_002 lines 74-80: initialized = true; the caller goes on
Registry_Initialized(p) ==
  /\ user[p].pc = "warming"
  /\ initialized' = TRUE
  /\ initRuns' = initRuns + 1
  /\ user' = [user EXCEPT ![p].pc = IF user[p].op = "search" THEN "searching"
                                     ELSE "idle"]
  /\ UNCHANGED <<toolMetadata, index>>
  /\ UNCHANGED <<now, breakerVars, agentVars, cacheVars, lazyVars, plannerVars,
               storeVars, utilVars>>

\* part_002 lines 187-191, part_011 lines 54-101: the vector search resolves
\* with the names of the k best tools
Registry_Searched(p, sim) ==
  /\ user[p].pc = "searching"
  /\ user' = [user EXCEPT ![p].pc = "getting",
                          ![p].query = sim,
                          ![p].names = vectorSearch(index, sim, user[p].k),
                          ![p].todo = vectorSearch(index, sim, user[p].k)]
  /\ UNCHANGED <<initialized, toolMetadata, index, initRuns>>
  /\ UNCHANGED <<now, breakerVars, agentVars, cacheVars, lazyVars, plannerVars,
               storeVars, utilVars>>

\* part_002 lines 194-198 with dynamic_cache.ts lines 39-58: dynamicCache.get of
\* the next name: a cached tool is returned at once (its access is recorded);
\* else the call awaits the load in flight, or begins one (loadTool)
Registry_Get(p) ==
  LET name == Head(user[p].todo) IN
  /\ user[p].pc = "getting"
  /\ user[p].todo # <<>>
  /\ IF name \in CacheNames(cache)
       THEN /\ cache' = [i \in DOMAIN cache |->
                           IF cache[i].name = name
                             THEN [cache[i] EXCEPT
                                     !.lastAccess = now,
                                     !.accessCount = IF @ < MaxAccess THEN @ + 1 ELSE @]
                             ELSE cache[i]]
            /\ user' = [user EXCEPT ![p].result = Append(@, name),
                                    ![p].todo = Tail(@)]
            /\ UNCHANGED loadPromises
       ELSE /\ loadPromises' = [loadPromises EXCEPT ![name] =
                                 IF @ = "none" THEN "loading" ELSE @]
            /\ user' = [user EXCEPT ![p].pc = "awaiting",
                                    ![p].loaded = IF loadPromises[name] = "none"
                                                    THEN @ \cup {name} ELSE @]
            /\ UNCHANGED cache
  /\ UNCHANGED <<initialized, toolMetadata, index, initRuns, toolBytes>>
  /\ UNCHANGED <<now, breakerVars, agentVars, lazyVars, plannerVars, storeVars, utilVars>>

\* dynamic_cache.ts lines 60-65, part_002 lines 196-197: the load has resolved,
\* with the tool or with null
Registry_Got(p) ==
  LET name == Head(user[p].todo) IN
  /\ user[p].pc = "awaiting"
  /\ loadPromises[name] = "none"
  /\ user' = [user EXCEPT ![p].pc = "getting",
                          ![p].result = IF name \in CacheNames(cache)
                                          THEN Append(@, name) ELSE @,
                          ![p].todo = Tail(@)]
  /\ UNCHANGED <<initialized, toolMetadata, index, initRuns>>
  /\ UNCHANGED <<now, breakerVars, agentVars, cacheVars, lazyVars, plannerVars,
               storeVars, utilVars>>

\* dynamic_cache.ts lines 89-93: the ten most similar tools, without the
\* names of the result and the cached ones: the first three
toPreload(similar, currentTools, c) ==
  FirstN(SelectSeq(similar, LAMBDA n : /\ \A i \in DOMAIN currentTools :
                                            currentTools[i] # n
                                       /\ n \notin CacheNames(c)),
         3)

\* part_002 lines 200-203, dynamic_cache.ts lines 89-99, 50-58: preloadSimilar
\* calls get for each tool to preload and does not await them; search returns
Registry_Preload(p) ==
  LET names == toPreload(vectorSearch(index, user[p].query, 10), user[p].names, cache)
      begun == { names[i] : i \in DOMAIN names } \cap
                 { n \in CacheTools : loadPromises[n] = "none" }
  IN
  /\ user[p].pc = "getting"
  /\ user[p].todo = <<>>
  /\ loadPromises' = [n \in CacheTools |->
                        IF n \in begun THEN "loading" ELSE loadPromises[n]]
  /\ user' = [user EXCEPT ![p].pc = "idle", ![p].loaded = @ \cup begun]
  /\ UNCHANGED <<initialized, toolMetadata, index, initRuns, cache, toolBytes>>
  /\ UNCHANGED <<now, breakerVars, agentVars, lazyVars, plannerVars, storeVars, utilVars>>

RegistryIdle ==
  /\ initialized = FALSE
  /\ toolMetadata = {}
  /\ index = <<>>
  /\ initRuns = 0
  /\ user = [p \in Users |-> NoCall]

(***************************************************************************)
(* Planner.proposeNext (src/unnamed/part_012, lines 299-519).  A task is   *)
(* given by the outcome of the tests the planner makes on its text (the    *)
(* task has no "vs"), a history line by the outcome of the tests made on   *)
(* it; the lines are those that Agent.run pushes.                          *)
(***************************************************************************)
PlannerTools == {"calculator", "web_search", "summarize_text", "file_read"}
\* the history holds at most MaxHistory lines
MaxHistory == 3

\* math: line 433; info: lines 504-505; search: line 446; summarize: line 482;
\* file: line 451; vs: line 379 (the task splits on "vs" / "versus"); leftOk,
\* rightOk: lines 409-410 (the side cleans to number-operator-number);
\* sameSides: the two sides clean to the same expression
AllTasks ==
  [math : BOOLEAN, info : BOOLEAN, search : BOOLEAN, summarize : BOOLEAN,
   file : BOOLEAN, vs : BOOLEAN, leftOk : BOOLEAN, rightOk : BOOLEAN,
   sameSides : BOOLEAN]

\* the tasks without "vs"
Tasks == { t \in AllTasks : ~t.vs /\ ~t.leftOk /\ ~t.rightOk /\ ~t.sameSides }

\* the tasks "L vs R" with no keyword of the other rules
VsTasks ==
  { t \in AllTasks : /\ t.vs
                     /\ ~t.math /\ ~t.search /\ ~t.summarize /\ ~t.file
                     /\ t.sameSides => (t.leftOk <=> t.rightOk) }

\* the mantissas of the values of the calculator range over 1..MaxMantissa
MaxMantissa == 2
\* a value of the calculator: m, or m * 10^21 and more, which JSON.stringify
\* writes in exponent notation (m followed by e+21)
Values == [m : 1..MaxMantissa, sci : BOOLEAN]
NoValue == [m |-> 0, sci |-> FALSE]
\* lv < rv for two values of the calculator
NumLess(a, b) == (~a.sci /\ b.sci) \/ (a.sci = b.sci /\ a.m < b.m)
\* line 395: the number that the pattern [-+]?\d+(?:\.\d+)? matches after
\* "value": in the line: the digits up to the exponent part
matchedNumber(v) == [m |-> v.m, sci |-> FALSE]

NoAction == [type |-> "none", tool |-> "none", args |-> "none"]
UseTool(t, a) == [type |-> "use_tool", tool |-> t, args |-> a]
AskHuman == [type |-> "ask_human", tool |-> "none", args |-> "none"]
FinalAnswer == [type |-> "final_answer", tool |-> "none", args |-> "none"]
\* line 421: the final answer of a comparison states the relation
ComparisonAnswer(rel) == [type |-> "final_answer", tool |-> "none", args |-> rel]

\* agent line 783: `Used ${tool.name}, observed: ${preview(observation)}`; `long`
\* is whether the line passes the length tests of lines 471-474 and 484, which
\* are made on the lines of web_search and summarize_text only
UsedLine(t, a, long) ==
  [kind |-> "used", tool |-> t, args |-> a, long |-> long, value |-> NoValue]
\* agent line 788: `Tool ${tool.name} failed: ${err.message}`
FailedLine(t) ==
  [kind |-> "failed", tool |-> t, args |-> "none", long |-> FALSE, value |-> NoValue]
\* agent line 749: `Human: ${answer}`
HumanLine ==
  [kind |-> "human", tool |-> "none", args |-> "none", long |-> FALSE, value |-> NoValue]

\* stepsToHistory line 925: `Used ${s.data.tool} with ${JSON.stringify(s.data.args)}`;
\* the text given to summarize_text (line 483) is the joined web lines, which
\* passed the length test of line 484
WithLine(t, a) ==
  [kind |-> "with", tool |-> t, args |-> a, long |-> (a = "history_text"),
   value |-> NoValue]
\* stepsToHistory line 926: `Observed: ${preview(s.data)}`; `t` is the tool whose
\* result the observation holds, "none" for an error or a human answer
ObservedLine(t, a, long) ==
  [kind |-> "observed", tool |-> t, args |-> a, long |-> long, value |-> NoValue]
\* stepsToHistory line 927: `Final: ${s.data.output}`
FinalLine ==
  [kind |-> "final", tool |-> "none", args |-> "none", long |-> FALSE, value |-> NoValue]
\* the line of a result {expr, value} of the calculator (calculator.ts 33)
WithValue(h, v) == [h EXCEPT !.value = v]

\* the line holds the text of the web lines of the history (args of line 483)
QuotesWebLines(h) == h.kind = "with" /\ h.args = "history_text"

\* h.includes('<tool name>'): the lines that Agent.run pushes and the line of a
\* tool step name the tool; the line of an observation holds its data only
Mentions(h, t) ==
  \/ h.kind # "observed" /\ h.tool = t
  \/ QuotesWebLines(h) /\ t = "web_search"
\* h.includes('results'): web_search returns {query, results} (web_search.ts 28)
IncludesResults(h) ==
  \/ h.kind \in {"used", "observed"} /\ h.tool = "web_search"
  \/ QuotesWebLines(h)
\* h.includes('output'): summarize_text returns {output} (part_010 line 26)
IncludesOutput(h) == h.kind \in {"used", "observed"} /\ h.tool = "summarize_text"
\* h.includes(`"expr":"${expr}"`): calculator takes {expr} and returns
\* {expr, value} (calculator.ts 33)
IncludesExpr(h) ==
  h.kind \in {"used", "with", "observed"} /\ h.tool = "calculator" /\ h.args = "task_expr"

CountLines(history, t) ==
  Cardinality({ i \in DOMAIN history : Mentions(history[i], t) })

\* lines 458-512
intelligentFallback(task, history, names) ==
  LET webSearchCount == CountLines(history, "web_search")
      summarizeCount == CountLines(history, "summarize_text")
      hasWebResults == \E i \in DOMAIN history :
                         Mentions(history[i], "web_search") /\ IncludesResults(history[i])
      summaries == { i \in DOMAIN history :
                       Mentions(history[i], "summarize_text") /\ IncludesOutput(history[i]) }
      hasSummary == summaries # {}
      summaryContent == history[CHOOSE i \in summaries : \A j \in summaries : j <= i]
      webContentLong == \E i \in DOMAIN history :
                          /\ Mentions(history[i], "web_search") \/ IncludesResults(history[i])
                          /\ history[i].long
  IN
  IF hasSummary /\ summarizeCount >= 1 /\ summaryContent.long
    THEN FinalAnswer
  ELSE IF /\ task.summarize /\ hasWebResults /\ summarizeCount = 0
          /\ "summarize_text" \in names /\ webContentLong
    THEN UseTool("summarize_text", "history_text")
  ELSE IF webSearchCount >= 3 /\ hasWebResults
    THEN IF summarizeCount = 0 /\ "summarize_text" \in names
           THEN UseTool("summarize_text", "history_text")
           ELSE FinalAnswer
  ELSE IF task.info /\ webSearchCount < 2 /\ "web_search" \in names
    THEN UseTool("web_search", "task_query")
  ELSE NoAction

\* lines 404-405: the cleaned sides of the task
LeftExpr(task) == "left_expr"
RightExpr(task) == IF task.sameSides THEN "left_expr" ELSE "right_expr"

\* lines 389-393: a line names the calculator and holds "expr":"<expr>"
hasCalcFor(history, expr) ==
  \E i \in DOMAIN history :
    /\ Mentions(history[i], "calculator")
    /\ history[i].kind \in {"used", "with"}
    /\ history[i].args = expr

\* lines 394-402: the last line holding "expr":"<expr>","value":<number>
ValueLines(history, expr) ==
  { i \in DOMAIN history : /\ history[i].kind \in {"used", "observed"}
                           /\ history[i].tool = "calculator"
                           /\ history[i].args = expr
                           /\ history[i].value # NoValue }

getValueFor(history, expr) ==
  LET found == ValueLines(history, expr) IN
  IF found = {} THEN NoValue
  ELSE matchedNumber(history[CHOOSE i \in found : \A j \in found : j <= i].value)

\* lines 403-427: the comparison "L vs R"
comparison(task, history) ==
  LET lv == getValueFor(history, LeftExpr(task))
      rv == getValueFor(history, RightExpr(task))
  IN
  IF task.leftOk /\ ~hasCalcFor(history, LeftExpr(task))
    THEN UseTool("calculator", LeftExpr(task))
  ELSE IF task.rightOk /\ ~hasCalcFor(history, RightExpr(task))
    THEN UseTool("calculator", RightExpr(task))
  ELSE IF task.leftOk /\ task.rightOk /\ lv # NoValue /\ rv # NoValue
    THEN ComparisonAnswer(IF lv = rv THEN "equal to"
                          ELSE IF NumLess(lv, rv) THEN "less than" ELSE "greater than")
  ELSE NoAction

\* lines 372-456
heuristicFallback(task, history, names) ==
  LET already == \E i \in DOMAIN history :
                   Mentions(history[i], "calculator") /\ IncludesExpr(history[i])
      compared == IF task.vs /\ "calculator" \in names
                    THEN comparison(task, history) ELSE NoAction
  IN
  IF compared # NoAction THEN compared
  ELSE IF task.math /\ "calculator" \in names /\ ~already
    THEN UseTool("calculator", "task_expr")
  ELSE IF task.search /\ "web_search" \in names
    THEN UseTool("web_search", "task_query")
  ELSE IF task.file /\ "file_read" \in names
    THEN AskHuman
  ELSE NoAction

\* what extractJson (lines 515-519) makes of the completion of the LLM: null,
\* an object of another type, or an action; the LLM names a tool with the
\* arguments that the fallbacks derive from the task, or with others
LlmOutputs ==
  { NoAction, AskHuman, FinalAnswer }
    \cup { UseTool("calculator", a) : a \in {"task_expr", "other_args"} }
    \cup { UseTool("web_search", a) : a \in {"task_query", "other_args"} }
    \cup { UseTool("no_such_tool", "other_args") }

\* lines 302-340; registry.getOrLoad resolves the tools of PlannerTools
proposeNext(task, history, names, llm) ==
  LET intelligent == intelligentFallback(task, history, names)
      heuristic == heuristicFallback(task, history, names)
  IN
  IF intelligent # NoAction THEN intelligent
  ELSE IF heuristic # NoAction THEN heuristic
  ELSE IF llm.type \notin {"use_tool", "ask_human", "final_answer"}
    THEN IF intelligent # NoAction THEN intelligent ELSE AskHuman
  ELSE IF llm.type = "use_tool" /\ llm.tool \notin PlannerTools
    THEN IF intelligent # NoAction THEN intelligent ELSE AskHuman
  ELSE llm

\* the steps of a run, by the fields that stepsToHistory reads; `what` tells
\* the observations apart: the result of the tool, an error, a human answer
PStep(kind, t, a, long, what) ==
  [kind |-> kind, tool |-> t, args |-> a, long |-> long, what |-> what,
   value |-> NoValue]
ThoughtStep == PStep("thought", "none", "none", FALSE, "none")
FinalStep == PStep("final", "none", "none", FALSE, "none")
ToolStep(t, a) == PStep("tool", t, a, FALSE, "none")
ResultStep(t, a, long) == PStep("observation", t, a, long, "result")
ErrorStep == PStep("observation", "none", "none", FALSE, "error")
HumanStep == PStep("observation", "none", "none", FALSE, "human")

\* lines 922-930: one line for each tool, observation and final step
RECURSIVE stepsToHistory(_)
stepsToHistory(steps) ==
  IF steps = <<>> THEN <<>>
  ELSE LET s == Head(steps)
           line == IF s.kind = "tool" THEN <<WithLine(s.tool, s.args)>>
                   ELSE IF s.kind = "observation"
                     THEN <<WithValue(ObservedLine(s.tool, s.args, s.long), s.value)>>
                   ELSE IF s.kind = "final" THEN <<FinalLine>>
                   ELSE <<>>
       IN line \o stepsToHistory(Tail(steps))

\* agent lines 725-735: the loop asks the planner for the next action and
\* appends the thought step, and the final step of a final answer
Planner_Propose(llm) ==
  /\ pAction = NoAction
  /\ pAction' = proposeNext(pTask, pHistory, pNames, llm)
  /\ pSteps' = pSteps \o IF pAction'.type = "final_answer"
                           THEN <<ThoughtStep, FinalStep>> ELSE <<ThoughtStep>>
  /\ UNCHANGED <<pTask, pNames, pHistory, pLive, pResumed>>
  /\ UNCHANGED <<now, breakerVars, agentVars, cacheVars, lazyVars, registryVars,
               storeVars, utilVars>>

\* agent lines 781-785: the tool was executed, its observation is pushed, the
\* tool step and the observation step are appended
Planner_ToolUsed(long, value) ==
  /\ pAction.type = "use_tool"
  /\ long => pAction.tool \in {"web_search", "summarize_text"}
  /\ (value # NoValue) = (pAction.tool = "calculator" /\ pTask.vs)
  /\ Len(pHistory) < MaxHistory
  /\ pHistory' = Append(pHistory,
                        WithValue(UsedLine(pAction.tool, pAction.args, long), value))
  /\ pLive' = Append(pLive, WithValue(UsedLine(pAction.tool, pAction.args, long), value))
  /\ pSteps' = pSteps \o <<ToolStep(pAction.tool, pAction.args),
                            WithValue(ResultStep(pAction.tool, pAction.args, long),
                                      value)>>
  /\ pAction' = NoAction
  /\ UNCHANGED <<pTask, pNames, pResumed>>
  /\ UNCHANGED <<now, breakerVars, agentVars, cacheVars, lazyVars, registryVars,
               storeVars, utilVars>>

\* agent lines 786-789: the execution failed: the line is pushed and the
\* observation{error} is appended
Planner_ToolFailed ==
  /\ pAction.type = "use_tool"
  /\ Len(pHistory) < MaxHistory
  /\ pHistory' = Append(pHistory, FailedLine(pAction.tool))
  /\ pLive' = Append(pLive, FailedLine(pAction.tool))
  /\ pSteps' = Append(pSteps, ErrorStep)
  /\ pAction' = NoAction
  /\ UNCHANGED <<pTask, pNames, pResumed>>
  /\ UNCHANGED <<now, breakerVars, agentVars, cacheVars, lazyVars, registryVars,
               storeVars, utilVars>>

\* agent lines 747-751: the human answered the question: the line is pushed
\* and observation{human: true, question, answer} is appended
Planner_HumanAnswered ==
  /\ pAction.type = "ask_human"
  /\ Len(pHistory) < MaxHistory
  /\ pHistory' = Append(pHistory, HumanLine)
  /\ pLive' = Append(pLive, HumanLine)
  /\ pSteps' = Append(pSteps, HumanStep)
  /\ pAction' = NoAction
  /\ UNCHANGED <<pTask, pNames, pResumed>>
  /\ UNCHANGED <<now, breakerVars, agentVars, cacheVars, lazyVars, registryVars,
               storeVars, utilVars>>

\* agent lines 721, 796-807: the run is interrupted at the top of the loop and
\* resumed: the history is rebuilt from the stored steps
Planner_Resume ==
  /\ pAction = NoAction
  /\ ~pResumed
  /\ pSteps # <<>>
  /\ pResumed' = TRUE
  /\ pHistory' = stepsToHistory(pSteps)
  /\ UNCHANGED <<pTask, pNames, pAction, pSteps, pLive>>
  /\ UNCHANGED <<now, breakerVars, agentVars, cacheVars, lazyVars, registryVars,
               storeVars, utilVars>>

PlannerIdle ==
  /\ pTask = [math |-> FALSE, info |-> FALSE, search |-> FALSE, summarize |-> FALSE,
              file |-> FALSE, vs |-> FALSE, leftOk |-> FALSE, rightOk |-> FALSE,
              sameSides |-> FALSE]
  /\ pNames = {}
  /\ pHistory = <<>>
  /\ pAction = NoAction
  /\ pSteps = <<>>
  /\ pLive = <<>>
  /\ pResumed = FALSE

(***************************************************************************)
(* Run Store: JsonStore (src/src/agent/store.ts)                           *)
(***************************************************************************)
NoRun == [status |-> "none", steps |-> <<>>]

\* a step of the run; `act` is the number of the planner call it belongs to
Step(kind, a) == [kind |-> kind, a |-> a, act |-> actNo]

\* a write the handler makes with appendStep, inside or outside the try block
Op(step, inTry) == [step |-> step, inTry |-> inTry]

\* String(err) of an Error object is "Error: " followed by its message
StringOfError(message) == "Error: " \o message

\* lines 891, 918: the message of the error that executeToolWithRetry throws:
\* circuit_open:<name>, or the message of the last error of tool.run
errorMessage(result, t) ==
  IF result = "circuit_open" THEN "circuit_open:" \o t ELSE "run_failed"

\* store.ts lines 17-21: save writes the whole run held in memory, with every
\* step it has, over the file
savedRun_LastStepOnly(status, steps) ==
  [status |-> status, steps |-> IF steps = <<>> THEN <<>> ELSE <<steps[Len(steps)]>>]
savedRun(status, steps) == [status |-> status, steps |-> steps]

\* agent lines 786-789: the catch block appends observation{error: String(err)}
\* with one more appendStep, which may fail too
CatchWrite(mem1, dsk, status) ==
  LET mem2 == Append(mem1, Step("observation", StringOfError("write_failed"))) IN
  { [mem |-> mem2, dsk |-> savedRun(status, mem2), res |-> "ok"],
    [mem |-> mem2, dsk |-> dsk, res |-> "fail"] }

\* store.ts lines 30-34, 17-21: appendStep pushes the step, then save writes the
\* whole run; writeFileSync may throw, and then the file keeps its old content.
\* The outcomes of making the writes `ops` in order.
RECURSIVE RunWrites(_, _, _, _)
RunWrites(mem, dsk, status, ops) ==
  IF ops = <<>>
    THEN { [mem |-> mem, dsk |-> dsk, res |-> "ok"] }
    ELSE LET op == Head(ops)
             mem1 == Append(mem, op.step)
             saved == savedRun(status, mem1)
         IN RunWrites(mem1, saved, status, Tail(ops))
              \cup (IF op.inTry
                      THEN CatchWrite(mem1, dsk, status)
                      ELSE { [mem |-> mem1, dsk |-> dsk, res |-> "fail"] })

\* the handler appends `ops` and goes on
Outcomes(ops) ==
  { [mem |-> o.mem, dsk |-> o.dsk, res |-> o.res, status |-> run.status] :
      o \in RunWrites(run.steps, disk, run.status, ops) }

\* the handler appends `ops`, then sets run.status and calls store.save(run)
OutcomesThenStatus(ops, newStatus) ==
  LET os == RunWrites(run.steps, disk, run.status, ops) IN
  { [mem |-> o.mem, dsk |-> o.dsk, res |-> "fail", status |-> run.status] :
      o \in { x \in os : x.res = "fail" } }
  \cup { [mem |-> o.mem, dsk |-> savedRun(newStatus, o.mem),
          res |-> "ok", status |-> newStatus] : o \in { x \in os : x.res = "ok" } }
  \cup { [mem |-> o.mem, dsk |-> o.dsk, res |-> "fail", status |-> newStatus] :
          o \in { x \in os : x.res = "ok" } }

\* the effect of an outcome on the run, the file and the position of the call
Commit(o, nextPc, nextStepNo) ==
  /\ run' = [status |-> o.status, steps |-> o.mem]
  /\ disk' = o.dsk
  /\ ioFailed' = (ioFailed \/ o.res = "fail")
  /\ IF o.res = "ok"
       THEN pc' = nextPc /\ stepNo' = nextStepNo /\ abort' = abort
       ELSE pc' = "aborted" /\ stepNo' = stepNo /\ abort' = "store_io"

(***************************************************************************)
(* Approval policy: maybeApprove (src/src/policy/approvals.ts)             *)
(***************************************************************************)
\* approvals.ts lines 7-8: no prompt in mode auto, nor in mode sensitive for a
\* tool that is not sensitive
promptsHuman_AlwaysOnly(m, sensitive) == m = "always"
promptsHuman(m, sensitive) == ~(m = "auto") /\ ~(m = "sensitive" /\ ~sensitive)

\* approvals.ts lines 6-13; `human` is whether the answer starts with "y"
maybeApprove(m, sensitive, human) == IF promptsHuman(m, sensitive) THEN human ELSE TRUE

(***************************************************************************)
(* Agent.run / Agent.resume (the two loops have the same body)             *)
(***************************************************************************)
\* the step limit cfg.MAX_STEPS
MaxSteps == 2
\* at most MaxCalls calls of run() / resume() are made on the run
MaxCalls == 2
\* at most MaxActs calls of the planner are made on the run, over all its calls
MaxActs == 3

\* lines 720, 808: for (let step = 1; step <= MAX_STEPS; step++)
stepLimitReached_Never(step) == FALSE
stepLimitReached(step) == step > MaxSteps

YesNo(b) == IF b THEN "yes" ELSE "no"

\* lines 735, 816: run.status = 'done'
statusAfterFinal == "done"

\* lines 742, 769, 823, 849: approval-response{approved: !!ok} is appended
\* whatever the outcome
approvalResponseOps_OnlyDenied(ok) ==
  IF ok THEN <<>> ELSE <<Op(Step("approval-response", YesNo(ok)), FALSE)>>
approvalResponseOps(ok) == <<Op(Step("approval-response", YesNo(ok)), FALSE)>>

\* lines 774, 853: if (!parsed.success) inside the try block
argsRejected_Never(parsed) == FALSE
argsRejected(parsed) == ~parsed

\* lines 743, 770, 824, 850: if (!ok) { markInterrupted; return }
deniedStops_Never(ok) == FALSE
deniedStops(ok) == ~ok

\* lines 721, 809: if (this.interrupted) at the top of the loop body
interruptedAtTop_Never == FALSE
interruptedAtTop == interrupted

\* lines 799-800: runs that are done or failed are not resumed
resumable_FailedToo(status) == status # "done"
resumable(status) == status \notin {"done", "failed"}

\* line 880: markInterrupted appends an interruption step
interruptionOps_None(reason) == <<>>
interruptionOps(reason) == <<Op(Step("interruption", reason), FALSE)>>

(***************************************************************************)
(* JsonStore (src/src/agent/store.ts)                                      *)
(***************************************************************************)
\* the run holds at most MaxStoreSteps steps
MaxStoreSteps == 3
\* the value of a property that was set to undefined
Undefined == "undefined"

\* part_012 line 726: the data of a thought step; action.tool is undefined
\* unless the action is use_tool
ThoughtData(type) ==
  [action |-> type, tool |-> IF type = "use_tool" THEN "calculator" ELSE Undefined]
\* part_012 line 784
ToolData == [tool |-> "calculator", args |-> "args"]
\* part_012 line 789
ErrorData == [error |-> "Error: run_failed"]
\* part_012 line 735
FinalData == [output |-> "text"]

\* the steps that the agent appends, by kind and data
StoreSteps ==
  { [kind |-> "thought", data |-> ThoughtData("use_tool")],
    [kind |-> "thought", data |-> ThoughtData("final_answer")],
    [kind |-> "tool", data |-> ToolData],
    [kind |-> "observation", data |-> ErrorData],
    [kind |-> "final", data |-> FinalData] }

NoStoreRun == [exists |-> FALSE, updatedAt |-> 0, steps |-> <<>>]
NoFile == [exists |-> FALSE, json |-> NoStoreRun]

\* JSON.stringify of an object leaves out the properties whose value is
\* undefined
stringifyData(d) == [k \in { x \in DOMAIN d : d[x] # Undefined } |-> d[k]]

\* store.ts line 20: JSON.stringify(run, null, 2)
stringify(r) ==
  [exists |-> TRUE,
   json |-> [r EXCEPT !.steps =
               [i \in DOMAIN r.steps |->
                  [r.steps[i] EXCEPT !.data = stringifyData(@)]]]]

\* store.ts lines 10-15: load: null without a file, else JSON.parse of it
load(file) == IF file.exists THEN file.json ELSE NoStoreRun

\* store.ts lines 23-28 with 17-21: create; writeFileSync may throw
Store_Create(ok) ==
  LET r == [exists |-> TRUE, updatedAt |-> now, steps |-> <<>>] IN
  /\ ~sRun.exists
  /\ ~sFile.exists
  /\ sRun' = IF ok THEN r ELSE sRun
  /\ sFile' = IF ok THEN stringify(r) ELSE sFile
  /\ sLast' = [op |-> "create", ok |-> ok, before |-> 0]
  /\ UNCHANGED <<now, breakerVars, agentVars, cacheVars, lazyVars, registryVars,
                 plannerVars, utilVars>>

\* store.ts lines 30-34 with 17-21: appendStep pushes the step, sets updatedAt
\* and saves; writeFileSync may throw
Store_AppendStep(st, ok) ==
  LET step == [id |-> Len(sRun.steps) + 1, kind |-> st.kind, ts |-> now,
               data |-> st.data]
      r == [sRun EXCEPT !.steps = Append(@, step), !.updatedAt = now]
  IN
  /\ sRun.exists
  /\ Len(sRun.steps) < MaxStoreSteps
  /\ sRun' = r
  /\ sFile' = IF ok THEN stringify(r) ELSE sFile
  /\ sLast' = [op |-> "appendStep", ok |-> ok, before |-> sRun.updatedAt]
  /\ UNCHANGED <<now, breakerVars, agentVars, cacheVars, lazyVars, registryVars,
                 plannerVars, utilVars>>

\* part_012 line 797: a later process loads the run from its file
Store_Load ==
  /\ sFile.exists
  /\ sLast.op # "load"
  /\ sRun' = load(sFile)
  /\ sLast' = [op |-> "load", ok |-> TRUE, before |-> sRun.updatedAt]
  /\ UNCHANGED <<sFile, now, breakerVars, agentVars, cacheVars, lazyVars,
                 registryVars, plannerVars, utilVars>>

\* time passes between two calls of the store
Store_Tick == Tick /\ UNCHANGED <<breakerVars, agentVars, toolingVars>>

StoreIdle ==
  /\ sRun = NoStoreRun
  /\ sFile = NoFile
  /\ sLast = [op |-> "none", ok |-> TRUE, before |-> 0]

(***************************************************************************)
(* The components outside the agent loop, each held in one variable        *)
(***************************************************************************)
\* the frame of the actions of one component
KeepBut_preloadCall == UNCHANGED <<coreVars, scan, embIndex, files, cliRun, executor, collab, replaceCall>>
KeepBut_scan == UNCHANGED <<coreVars, preloadCall, embIndex, files, cliRun, executor, collab, replaceCall>>
KeepBut_embIndex == UNCHANGED <<coreVars, preloadCall, scan, files, cliRun, executor, collab, replaceCall>>
KeepBut_files == UNCHANGED <<coreVars, preloadCall, scan, embIndex, cliRun, executor, collab, replaceCall>>
KeepBut_cliRun == UNCHANGED <<coreVars, preloadCall, scan, embIndex, files, executor, collab, replaceCall>>
KeepBut_executor == UNCHANGED <<coreVars, preloadCall, scan, embIndex, files, cliRun, collab, replaceCall>>
KeepBut_collab == UNCHANGED <<coreVars, preloadCall, scan, embIndex, files, cliRun, executor, replaceCall>>
KeepBut_replaceCall == UNCHANGED <<coreVars, preloadCall, scan, embIndex, files, cliRun, executor, collab>>

(***************************************************************************)
(* Preloads: DynamicToolCache.preloadSimilar / smartPreload                *)
(* (src/src/tools/dynamic_cache.ts) as called by registry.search and       *)
(* optimizeForTask (src/unnamed/part_002)                                  *)
(***************************************************************************)
\* op: the registry call; embedded: the embedding of the query is in the
\* embedding cache of VectorToolSearch; loads: the get of each tool to preload
NoPreloadCall ==
  [pc |-> "idle", op |-> "none", embedded |-> FALSE, searchFailed |-> FALSE,
   loads |-> [n \in CacheTools |-> "none"], outcome |-> "none"]

\* dynamic_cache.ts lines 93, 191: preloadSimilar preloads up to 3 tools,
\* smartPreload up to 5
preloadLimit(op) == IF op = "search" THEN 3 ELSE 5

\* part_002 lines 200-201, 206-208: search, once it has got the tools of its
\* result, awaits preloadSimilar; optimizeForTask awaits smartPreload.  The
\* preload begins with a vector search (dynamic_cache.ts lines 90, 180-182)
Preload_Call(op, embedded) ==
  /\ preloadCall.pc \in {"idle", "returned"}
  /\ \A n \in CacheTools : preloadCall.loads[n] # "loading"
  /\ preloadCall' = [NoPreloadCall EXCEPT !.pc = "searching", !.op = op,
                                          !.embedded = embedded]
  /\ KeepBut_preloadCall

\* dynamic_cache.ts lines 90-98, 180-193: the vector search resolves; the tools
\* to preload are got without being awaited, any failure of theirs is caught
\* (.catch), and the preload resolves
Preload_Searched(names) ==
  /\ preloadCall.pc = "searching"
  /\ Cardinality(names) <= preloadLimit(preloadCall.op)
  /\ preloadCall' = [preloadCall EXCEPT
                       !.pc = "returned",
                       !.outcome = "resolved",
                       !.loads = [n \in CacheTools |->
                                    IF n \in names THEN "loading" ELSE "none"]]
  /\ KeepBut_preloadCall

\* part_011 lines 63-65: the query has no cached embedding, embeddings.embed is
\* awaited and rejects; nothing catches it in search, preloadSimilar (line 90),
\* smartPreload (lines 180-182), registry.search or optimizeForTask
Preload_SearchRejected ==
  /\ preloadCall.pc = "searching"
  /\ ~preloadCall.embedded
  /\ preloadCall' = [preloadCall EXCEPT
                       !.pc = "returned",
                       !.searchFailed = TRUE,
                       !.outcome = "rejected"]
  /\ KeepBut_preloadCall

\* dynamic_cache.ts lines 96-98, 193 with 55-65: a get of the background
\* preload resolves or rejects
Preload_Loaded(n, ok) ==
  /\ preloadCall.loads[n] = "loading"
  /\ preloadCall' = [preloadCall EXCEPT !.loads[n] = IF ok THEN "loaded" ELSE "failed"]
  /\ KeepBut_preloadCall

(***************************************************************************)
(* ToolCatalog.scanTools (src/unnamed/part_000) and                        *)
(* LazyToolRegistry.listAll (src/unnamed/part_011)                         *)
(***************************************************************************)
\* the tool files that the impl directory may hold, in the order of readdir
ScanFiles == <<"calculator", "file_read", "text_search", "web_fetch">>
\* scanTools runs at most MaxScans times
MaxScans == 2
\* part_000 lines 49-59: the categories in the order of their priority
Categories ==
  <<"core", "file", "text", "data", "crypto", "system", "web", "ai", "custom">>
CategoryNames == { Categories[i] : i \in DOMAIN Categories }

\* part_000 lines 48-63: the constructor; core starts with calculator
initializeCategories ==
  [c \in CategoryNames |-> IF c = "core" THEN <<"calculator">> ELSE <<>>]

\* dir: the files of the directory; todo: the files that the running scan has
\* yet to read; catalog: the keys of the Map; categories: category -> its
\* tools; done: the scans completed; once (history): the catalog and the
\* categories when the first scan completed
NoScan ==
  [pc |-> "idle", dir |-> <<>>, todo |-> <<>>, catalog |-> {},
   categories |-> initializeCategories, done |-> 0,
   once |-> [catalog |-> {}, categories |-> initializeCategories]]

\* part_000 lines 206-213: the entries of the tools of a category
listToolsByCategory(sc, c) ==
  SelectSeq(sc.categories[c], LAMBDA n : n \in sc.catalog)

\* part_011 lines 249-258: the entries of all categories, by priority
RECURSIVE listAllFrom(_, _)
listAllFrom(sc, i) ==
  IF i > Len(Categories) THEN <<>>
  ELSE listToolsByCategory(sc, Categories[i]) \o listAllFrom(sc, i + 1)

listAll(sc) == listAllFrom(sc, 1)

\* part_000 lines 66-68 (part_011 line 195): scanTools reads the directory
Scan_Begin(dir) ==
  /\ scan.pc = "idle"
  /\ scan.done < MaxScans
  /\ dir # <<>>
  /\ scan.done > 0 => dir = scan.dir
  /\ scan' = [scan EXCEPT !.pc = "scanning", !.dir = dir, !.todo = dir]
  /\ KeepBut_scan

\* part_000 lines 70-91: one file: the description is read and awaited, the
\* entry is set in the catalog and the name is pushed to its category
Scan_File ==
  LET toolName == Head(scan.todo) IN
  /\ scan.pc = "scanning"
  /\ scan.todo # <<>>
  /\ scan' = [scan EXCEPT
                !.todo = Tail(@),
                !.catalog = @ \cup {toolName},
                !.categories[categorize(toolName)] = Append(@, toolName)]
  /\ KeepBut_scan

\* part_000 line 92: scanTools resolves
Scan_End ==
  /\ scan.pc = "scanning"
  /\ scan.todo = <<>>
  /\ scan' = [scan EXCEPT
                !.pc = "idle",
                !.done = @ + 1,
                !.once = IF scan.done = 0
                           THEN [catalog |-> scan.catalog, categories |-> scan.categories]
                           ELSE @]
  /\ KeepBut_scan

(***************************************************************************)
(* ToolRegistry.buildEmbeddingIndex (src/src/index.ts)                     *)
(***************************************************************************)
IndexNames == {"calculator", "web_search"}
\* the texts that the description of a tool may have
IndexDescs == {"v1", "v2"}
IndexEntries == [name : IndexNames, description : IndexDescs]

\* index.ts lines 517-519: the digest of a text, taken as free of collisions
sha1(text) == <<"sha1", text>>
\* JSON.stringify of an array of strings
stringifyArray(a) == <<"json", a>>

\* index.ts line 435: the key of the embedding model of the configuration
embedKeyOf(apiKey) == IF apiKey THEN "text-embedding-3-small" ELSE "local-512-v1"

\* the provider's vectors of a list of descriptions, one for each
embed(descs, apiKey) ==
  [i \in DOMAIN descs |-> [text |-> descs[i], by |-> embedKeyOf(apiKey)]]

\* vectors that no provider of the model computes (a file written by hand)
ForeignVecs == <<[text |-> "other", by |-> "other"]>>

\* index.json: missing, unparsable, or a record
NoIndexFile ==
  [state |-> "missing", embed_key |-> "", names_hash |-> <<>>,
   descs_hash |-> <<>>, vecs |-> <<>>]
CorruptIndexFile == [NoIndexFile EXCEPT !.state = "corrupt"]

\* tools: the Map of the registry in insertion order; names, descs, vecs: the
\* index; file: index.json; b: the constants of the running build; embedded:
\* whether the last build called the provider; op (history): the last
\* operation
NoEmbIndex ==
  [pc |-> "idle", apiKey |-> FALSE, tools |-> <<>>, names |-> <<>>,
   descs |-> <<>>, vecs |-> <<>>, file |-> NoIndexFile,
   b |-> [embedKey |-> "", namesHash |-> <<>>, descsHash |-> <<>>],
   embedded |-> FALSE, op |-> "none"]

\* Map.set: the value of a present key is replaced in place
mapSet(tools, e) ==
  IF \E i \in DOMAIN tools : tools[i].name = e.name
    THEN [i \in DOMAIN tools |-> IF tools[i].name = e.name THEN e ELSE tools[i]]
    ELSE Append(tools, e)

cachedRecord_IgnoringNames(file, embedKey, namesHash, descsHash) ==
  /\ file.state = "ok"
  /\ file.embed_key = embedKey
  /\ file.descs_hash = descsHash

\* index.ts lines 439-448: the record read from the file is kept only if its
\* three keys are those of the build
cachedRecord(file, embedKey, namesHash, descsHash) ==
  /\ file.state = "ok"
  /\ file.embed_key = embedKey
  /\ file.descs_hash = descsHash
  /\ file.names_hash = namesHash

\* the process starts: an empty registry under the configuration of the run
Index_Start(apiKey) ==
  /\ embIndex.pc = "idle"
  /\ embIndex' = [NoEmbIndex EXCEPT
        !.apiKey = apiKey, !.file = embIndex.file, !.op = "start"]
  /\ KeepBut_embIndex

\* index.ts lines 346-353: registerTools (and the tools.set of loadAll,
\* getOrLoad and search)
Index_Register(e) ==
  /\ embIndex' = [embIndex EXCEPT !.tools = mapSet(@, e), !.op = "register"]
  /\ KeepBut_embIndex

\* index.json is removed, damaged or edited outside the program
Index_FileChanged(kind) ==
  /\ embIndex.pc = "idle"
  /\ \/ kind = "removed" /\ embIndex.file.state # "missing"
        /\ embIndex' = [embIndex EXCEPT !.file = NoIndexFile, !.op = "file"]
     \/ kind = "damaged" /\ embIndex.file.state = "ok"
        /\ embIndex' = [embIndex EXCEPT !.file = CorruptIndexFile, !.op = "file"]
     \/ kind = "edited" /\ embIndex.file.state = "ok"
        /\ embIndex.file.vecs # ForeignVecs
        /\ embIndex' = [embIndex EXCEPT !.file.vecs = ForeignVecs, !.op = "file"]
  /\ KeepBut_embIndex

\* index.ts lines 430-452: names and descs are taken from the Map, the keys
\* are computed, the file is read; with a kept record its vectors become the
\* index, without one the provider is called and awaited
Index_Build ==
  LET names == [i \in DOMAIN embIndex.tools |-> embIndex.tools[i].name]
      descs == [i \in DOMAIN embIndex.tools |-> embIndex.tools[i].description]
      embedKey == embedKeyOf(embIndex.apiKey)
      descsHash == sha1(stringifyArray(descs))
      namesHash == sha1(stringifyArray(names))
      cached == cachedRecord(embIndex.file, embedKey, namesHash, descsHash)
  IN
  /\ embIndex.pc = "idle"
  /\ embIndex' = [embIndex EXCEPT
        !.names = names,
        !.descs = descs,
        !.b = [embedKey |-> embedKey, namesHash |-> namesHash, descsHash |-> descsHash],
        !.vecs = IF cached THEN embIndex.file.vecs ELSE @,
        !.embedded = ~cached,
        !.op = "build",
        !.pc = IF cached THEN "idle" ELSE "embedding"]
  /\ KeepBut_embIndex

\* index.ts lines 453-454: the provider has answered for this.descs as they
\* were at the call; the vectors become the index and the record is written
Index_Embedded ==
  /\ embIndex.pc = "embedding"
  /\ LET vecs == embed(embIndex.descs, embIndex.apiKey) IN
     embIndex' = [embIndex EXCEPT
        !.vecs = vecs,
        !.file = [state |-> "ok", embed_key |-> embIndex.b.embedKey,
                  descs_hash |-> embIndex.b.descsHash,
                  names_hash |-> embIndex.b.namesHash, vecs |-> vecs],
        !.op = "embedded",
        !.pc = "idle"]
  /\ KeepBut_embIndex

(***************************************************************************)
(* write_file.run (src/unnamed/part_008)                                   *)
(***************************************************************************)
Paths == {"a.txt", "b.txt"}
Contents == {"old", "new"}
\* the content of a path that does not exist
Absent == "<absent>"

\* fs: the file system; path, content, overwrite: the arguments of the call;
\* err: the error that the try block threw; before (history): the content of
\* the path when the call was made
NoFiles ==
  [pc |-> "idle", fs |-> [p \in Paths |-> Absent], path |-> "a.txt",
   content |-> "old", overwrite |-> FALSE, err |-> "none", before |-> Absent]

\* part_008 lines 16-17: run is called; without overwrite the path is looked at
Write_Call(path, content, overwrite) ==
  /\ files.pc \in {"idle", "returned", "failed"}
  /\ files' = [files EXCEPT
                 !.pc = IF overwrite THEN "writing" ELSE "stat",
                 !.path = path, !.content = content, !.overwrite = overwrite,
                 !.err = "none", !.before = files.fs[path]]
  /\ KeepBut_files

\* part_008 lines 19-20: stat rejects with ENOENT for a missing path, or with
\* another code (EACCES); when it resolves, an Error without code is thrown
\* inside the try block
Write_Stat(denied) ==
  /\ files.pc = "stat"
  /\ files' = [files EXCEPT
                 !.pc = "caught",
                 !.err = IF denied THEN "EACCES"
                         ELSE IF files.fs[files.path] = Absent THEN "ENOENT"
                         ELSE "File exists"]
  /\ KeepBut_files

\* the code property of what was thrown: the Error of line 20 has none
codeOf(err) == IF err \in {"ENOENT", "EACCES"} THEN err ELSE "undefined"

\* part_008 line 22: the catch block rethrows what has a code other than ENOENT
rethrown(err) == codeOf(err) # "undefined" /\ codeOf(err) # "ENOENT"

\* part_008 lines 21-24
Write_Catch ==
  /\ files.pc = "caught"
  /\ files' = [files EXCEPT !.pc = IF rethrown(files.err) THEN "failed" ELSE "writing"]
  /\ KeepBut_files

\* part_008 lines 26-27: the content is written and the call returns
Write_Write ==
  /\ files.pc = "writing"
  /\ files' = [files EXCEPT !.pc = "returned", !.fs[files.path] = files.content]
  /\ KeepBut_files

\* a file is removed outside the program
Write_Unlink(path) ==
  /\ files.pc \in {"returned", "failed"}
  /\ files.fs[path] # Absent
  /\ files' = [files EXCEPT !.fs[path] = Absent, !.pc = "idle"]
  /\ KeepBut_files

(***************************************************************************)
(* The run command (src/src/index.ts) and loadConfig (src/unnamed/part_013)*)
(* Numbers are written as their decimal numerals.                          *)
(***************************************************************************)
\* what the command line may give for --max-steps and for --topk
FlagValues == {"absent", "5", "12"}
\* what the environment may hold for MAX_STEPS and for TOPK_TOOLS
EnvValues == {"unset", "7"}

\* parseInt and Number of the texts of the model
parseInt(text) == IF text \in {"5", "7", "8", "12", "20"} THEN text ELSE "NaN"
Number(text) == IF text \in {"5", "7", "8", "12", "20"} THEN text ELSE "NaN"
\* the numbers that || takes for false
falsy(number) == number \in {"0", "NaN"}

\* index.ts lines 24-25: an option declared with a default holds the default
\* when the flag is not given
optionValue(flag, default) == IF flag = "absent" THEN default ELSE flag

\* part_013 lines 22-23: process.env.X || default
envOr(env, default) == IF env = "unset" THEN default ELSE env

NoCliRun ==
  [pc |-> "idle", flagMax |-> "absent", flagTopk |-> "absent",
   envMax |-> "unset", envTopk |-> "unset",
   options |-> [maxSteps |-> "20", topk |-> "8"],
   cfg |-> [MAX_STEPS |-> "20", TOPK_TOOLS |-> "8"], topK |-> "8"]

\* index.ts lines 21-30: the command line is parsed
Cli_Parse(flagMax, flagTopk, envMax, envTopk) ==
  /\ cliRun.pc \in {"idle", "running"}
  /\ cliRun' = [NoCliRun EXCEPT
        !.pc = "parsed", !.flagMax = flagMax, !.flagTopk = flagTopk,
        !.envMax = envMax, !.envTopk = envTopk,
        !.options = [maxSteps |-> optionValue(flagMax, "20"),
                     topk |-> optionValue(flagTopk, "8")]]
  /\ KeepBut_cliRun

\* part_013 lines 16-28: loadConfig
Cli_LoadConfig ==
  /\ cliRun.pc = "parsed"
  /\ cliRun' = [cliRun EXCEPT
        !.pc = "configured",
        !.cfg = [MAX_STEPS |-> Number(envOr(cliRun.envMax, "20")),
                 TOPK_TOOLS |-> Number(envOr(cliRun.envTopk, "8"))]]
  /\ KeepBut_cliRun

\* index.ts lines 36 and 65: the override of MAX_STEPS (options.maxSteps is
\* a string whenever the option has a value) and the topK given to agent.run
Cli_Run ==
  /\ cliRun.pc = "configured"
  /\ cliRun' = [cliRun EXCEPT
        !.pc = "running",
        !.cfg.MAX_STEPS = parseInt(cliRun.options.maxSteps),
        !.topK = IF falsy(parseInt(cliRun.options.topk))
                   THEN cliRun.cfg.TOPK_TOOLS
                   ELSE parseInt(cliRun.options.topk)]
  /\ KeepBut_cliRun

(***************************************************************************)
(* ParallelExecutor.executeParallel (src/src/agent/arg_infer.ts)           *)
(***************************************************************************)
ExecIds == {"t1", "t2", "t3", "t4"}
\* arg_infer.ts line 101
maxConcurrency == 3
\* executeParallel is called at most MaxExecCalls times on the executor
MaxExecCalls == 2
TaskSetNames == {"wide", "diamond", "chain", "cycle", "unknown"}

ParallelTask(id, dependencies, priority) ==
  [id |-> id, dependencies |-> dependencies, priority |-> priority]

\* the task lists given to executeParallel; "ghost" is the id of no task
taskList(name) ==
  CASE name = "wide" ->
         <<ParallelTask("t1", {}, 1), ParallelTask("t2", {}, 1),
           ParallelTask("t3", {}, 1), ParallelTask("t4", {}, 2)>>
    [] name = "diamond" ->
         <<ParallelTask("t1", {}, 1), ParallelTask("t2", {"t1"}, 1),
           ParallelTask("t3", {"t1"}, 1), ParallelTask("t4", {"t2", "t3"}, 2)>>
    [] name = "chain" ->
         <<ParallelTask("t3", {}, 1), ParallelTask("t4", {"t3"}, 2)>>
    [] name = "cycle" ->
         <<ParallelTask("t1", {"t2"}, 1), ParallelTask("t2", {"t1"}, 1),
           ParallelTask("t3", {}, 1)>>
    [] OTHER ->
         <<ParallelTask("t1", {}, 1), ParallelTask("t2", {"ghost"}, 1)>>

\* lines 100-104 and 259-274: tasks: the list of the call; io: whether the
\* tools of the call settle through the event loop; status: the graph of the
\* call (completed, running, failed); results: the ids with a result;
\* promises: this.runningTasks in the order of the Map, kept from call to
\* call; race: the Promise.race that the call awaits; started (history): how
\* often the call started each task
NoExecutor ==
  [pc |-> "idle", calls |-> 0, set |-> "wide", tasks |-> <<>>, io |-> FALSE,
   status |-> [id \in ExecIds |-> "absent"], results |-> {},
   promises |-> <<>>, race |-> "pending", error |-> "none",
   started |-> [id \in ExecIds |-> 0]]

taskIds(tasks) == { tasks[i].id : i \in DOMAIN tasks }
withStatus(ex, st) == { id \in ExecIds : ex.status[id] = st }

\* lines 276-293: the tasks that are not completed, running or failed and
\* whose dependencies are all completed, by falling priority
getReadyTasks_IgnoringDependencies(ex) ==
  LET ready(t) == ex.status[t.id] = "pending" IN
  SelectSeq(ex.tasks, LAMBDA t : ready(t) /\ t.priority = 2)
    \o SelectSeq(ex.tasks, LAMBDA t : ready(t) /\ t.priority = 1)

getReadyTasks(ex) ==
  LET ready(t) ==
        /\ ex.status[t.id] = "pending"
        /\ \A depId \in t.dependencies :
             depId \in ExecIds /\ ex.status[depId] = "completed"
  IN SelectSeq(ex.tasks, LAMBDA t : ready(t) /\ t.priority = 2)
       \o SelectSeq(ex.tasks, LAMBDA t : ready(t) /\ t.priority = 1)

\* Map.set of a pending promise: a present key keeps its place
setPending(promises, id) ==
  IF \E i \in DOMAIN promises : promises[i].id = id
    THEN [i \in DOMAIN promises |->
            IF promises[i].id = id THEN [id |-> id, state |-> "pending"] ELSE promises[i]]
    ELSE Append(promises, [id |-> id, state |-> "pending"])

RECURSIVE setAllPending(_, _)
setAllPending(promises, tasks) ==
  IF tasks = <<>> THEN promises
  ELSE setAllPending(setPending(promises, Head(tasks).id), Tail(tasks))

settle(promises, id, state) ==
  [i \in DOMAIN promises |->
     IF promises[i].id = id THEN [id |-> id, state |-> state] ELSE promises[i]]

\* line 248: Promise.race over the values of runningTasks settles as the first
\* settled promise of the Map does
raceOf(promises) ==
  LET settled == SelectSeq(promises, LAMBDA q : q.state # "pending") IN
  IF settled = <<>> THEN "pending" ELSE Head(settled).state

\* the tasks are started only when no task of an earlier call still runs
Exec_Call(name, io) ==
  /\ executor.pc \in {"idle", "returned", "threw"}
  /\ executor.calls < MaxExecCalls
  /\ withStatus(executor, "running") = {}
  /\ executor' = [executor EXCEPT
        !.pc = "loop", !.calls = @ + 1, !.set = name, !.tasks = taskList(name),
        !.io = io,
        !.status = [id \in ExecIds |->
                      IF id \in taskIds(taskList(name)) THEN "pending" ELSE "absent"],
        !.results = {}, !.race = "pending", !.error = "none",
        !.started = [id \in ExecIds |-> 0]]
  /\ KeepBut_executor

\* lines 218-249 and 252-256: one pass of the loop, from its condition to the
\* await of the race, or the end of the loop
Exec_Iterate ==
  LET ex == executor
      readyTasks == getReadyTasks(ex)
      running == withStatus(ex, "running")
      availableSlots == maxConcurrency - Cardinality(running)
      tasksToStart == FirstN(readyTasks, availableSlots)
      startIds == taskIds(tasksToStart)
      promises == setAllPending(ex.promises, tasksToStart)
  IN
  /\ ex.pc = "loop"
  /\ executor' =
       IF ~(Cardinality(withStatus(ex, "completed")) < Len(ex.tasks)
            /\ withStatus(ex, "failed") = {})
         THEN IF withStatus(ex, "failed") # {}
                THEN [ex EXCEPT !.pc = "threw", !.error = "tasks_failed"]
                ELSE [ex EXCEPT !.pc = "returned"]
       ELSE IF readyTasks = <<>> /\ running = {}
         THEN [ex EXCEPT !.pc = "threw", !.error = "deadlock"]
       ELSE [ex EXCEPT
               !.status = [id \in ExecIds |->
                             IF id \in startIds THEN "running" ELSE ex.status[id]],
               !.started = [id \in ExecIds |->
                              IF id \in startIds THEN ex.started[id] + 1 ELSE ex.started[id]],
               !.promises = promises,
               !.race = raceOf(promises),
               !.pc = "awaiting"]
  /\ KeepBut_executor

\* line 248: the awaited race has settled; a rejection leaves executeParallel
Exec_Resume ==
  /\ executor.pc = "awaiting"
  /\ executor.race # "pending"
  /\ executor' =
       IF executor.race = "rejected"
         THEN [executor EXCEPT !.pc = "threw", !.error = "task_error"]
         ELSE [executor EXCEPT !.pc = "loop"]
  /\ KeepBut_executor

\* the event loop delivers the completion of input and output only when no
\* continuation is queued: the call awaits a race that is pending, or is over
eventLoopFree(ex) ==
  \/ ex.pc \in {"idle", "returned", "threw"}
  \/ ex.pc = "awaiting" /\ ex.race = "pending"

\* lines 232-241 and 295-317: tool.run of a running task resolves or rejects
Task_Settle(id, ok) ==
  LET ex == executor
      promises == settle(ex.promises, id, IF ok THEN "resolved" ELSE "rejected")
  IN
  /\ ex.status[id] = "running"
  /\ ex.io => eventLoopFree(ex)
  /\ executor' = [ex EXCEPT
        !.status[id] = IF ok THEN "completed" ELSE "failed",
        !.results = IF ok /\ ex.pc \notin {"returned", "threw"} THEN @ \cup {id} ELSE @,
        !.promises = promises,
        !.race = IF ex.pc = "awaiting" /\ ex.race = "pending"
                   THEN raceOf(promises) ELSE @]
  /\ KeepBut_executor

(***************************************************************************)
(* MultiAgentCoordinator.collaborate (src/unnamed/part_012)                *)
(***************************************************************************)
\* the number of agents of a collaboration is at most MaxAgents
MaxAgents == 3
\* maxStepsPerAgent
MaxChildSteps == 2
AgentIds == 1..MaxAgents

\* agents: the number of child agents; i: the child of the loop; constructed:
\* the children constructed so far, each with its SIGINT handler;
\* interrupted: the flag of each child; cpc, stepNo: the place of the running
\* child in Agent.run; childStatus: the status of the child runs;
\* parentStatus: the status of the parent run; planned, toolRuns (history):
\* the planner and tool invocations of each child; sigintAt (history): the
\* child that ran when the first SIGINT came, with its planned count
NoCollab ==
  [pc |-> "idle", agents |-> 2, i |-> 0, constructed |-> 0,
   interrupted |-> [a \in AgentIds |-> FALSE], cpc |-> "none", stepNo |-> 0,
   childStatus |-> [a \in AgentIds |-> "none"], parentStatus |-> "none",
   planned |-> [a \in AgentIds |-> 0], toolRuns |-> [a \in AgentIds |-> 0],
   sigintAt |-> 0, plannedAtSigint |-> 0]

\* part_012 lines 544-567: the parent run is created
Collab_Start(agents) ==
  /\ collab.pc = "idle"
  /\ collab' = [collab EXCEPT
        !.pc = "launch", !.agents = agents, !.i = 1, !.parentStatus = "running"]
  /\ KeepBut_collab

\* part_012 lines 570-581 and 701-710, 712-718: the next child is constructed
\* (its flag is false and its handler is registered) and its run is created;
\* after the last child the loop ends
Collab_Launch ==
  /\ collab.pc = "launch"
  /\ collab' =
       IF collab.i > collab.agents
         THEN [collab EXCEPT !.pc = "synthesize"]
         ELSE [collab EXCEPT
                 !.pc = "child", !.constructed = collab.i,
                 !.interrupted[collab.i] = FALSE,
                 !.childStatus[collab.i] = "running",
                 !.cpc = "top", !.stepNo = 1]
  /\ KeepBut_collab

\* part_012 lines 720-725 and 870-872: the top of the loop of Agent.run: an
\* interrupted child pauses, a child at its step limit pauses, else the
\* planner is invoked
Child_Top ==
  /\ collab.pc = "child" /\ collab.cpc = "top"
  /\ collab' =
       IF collab.stepNo > MaxChildSteps \/ collab.interrupted[collab.i]
         THEN [collab EXCEPT
                 !.childStatus[collab.i] = "paused", !.cpc = "none", !.pc = "collect"]
         ELSE [collab EXCEPT !.cpc = "planning", !.planned[collab.i] = @ + 1]
  /\ KeepBut_collab

\* the planner answers with a final answer or with a tool to run
Child_Planned(final) ==
  /\ collab.pc = "child" /\ collab.cpc = "planning"
  /\ collab' =
       IF final
         THEN [collab EXCEPT
                 !.childStatus[collab.i] = "done", !.cpc = "none", !.pc = "collect"]
         ELSE [collab EXCEPT !.cpc = "tool", !.toolRuns[collab.i] = @ + 1]
  /\ KeepBut_collab

\* the tool has run; the next step of the child
Child_ToolDone ==
  /\ collab.pc = "child" /\ collab.cpc = "tool"
  /\ collab' = [collab EXCEPT !.cpc = "top", !.stepNo = @ + 1]
  /\ KeepBut_collab

\* part_012 lines 583-595: the final of the child is logged in the parent
Collab_Collect ==
  /\ collab.pc = "collect"
  /\ collab' = [collab EXCEPT !.pc = "launch", !.i = @ + 1]
  /\ KeepBut_collab

\* part_012 lines 598-607: the synthesis is appended and the parent is done
Collab_Synthesize ==
  /\ collab.pc = "synthesize"
  /\ collab' = [collab EXCEPT !.pc = "done", !.parentStatus = "done"]
  /\ KeepBut_collab

\* part_012 line 709: every handler registered so far sets the flag of its
\* agent
Collab_Sigint ==
  /\ collab.pc = "child"
  /\ collab.sigintAt = 0
  /\ collab' = [collab EXCEPT
        !.interrupted = [a \in AgentIds |-> a <= collab.constructed \/ @[a]],
        !.sigintAt = collab.i,
        !.plannedAtSigint = collab.planned[collab.i]]
  /\ KeepBut_collab

(***************************************************************************)
(* text_replace.run without regex (src/unnamed/part_005)                   *)
(* A string is the sequence of its characters; JavaScript counts them from *)
(* 0.                                                                      *)
(***************************************************************************)
Chars == {"a", "A", "b"}
\* text has at most MaxTextLen characters, find and replace at most MaxFindLen
MaxTextLen == 3
MaxFindLen == 2
\* the loop of a call is followed for at most MaxReplacements replacements
MaxReplacements == 4

StringsUpTo(n) == UNION { [1..k -> Chars] : k \in 0..n }

toLowerCase(str) == [i \in DOMAIN str |-> IF str[i] = "A" THEN "a" ELSE str[i]]

\* whether sub stands in str from the 0-based position at
matchesAt(str, sub, at) ==
  /\ at + Len(sub) <= Len(str)
  /\ \A j \in 1..Len(sub) : str[at + j] = sub[j]

\* String.prototype.indexOf(sub, from): the first position from from on,
\* or -1
indexOf(str, sub, from) ==
  LET hits == { at \in from..Len(str) : matchesAt(str, sub, at) } IN
  IF hits = {} THEN -1 ELSE CHOOSE at \in hits : \A other \in hits : at <= other

\* String.prototype.substring(start, end) and substring(start): the bounds
\* are clamped to the length
clamp(str, n) == IF n < 0 THEN 0 ELSE IF n > Len(str) THEN Len(str) ELSE n
substring(str, start, end) ==
  LET a == clamp(str, start)
      b == clamp(str, end)
      lo == IF a <= b THEN a ELSE b
      hi == IF a <= b THEN b ELSE a
  IN [k \in 1..(hi - lo) |-> str[lo + k]]
substringFrom(str, start) == substring(str, start, Len(str))

NoReplaceCall ==
  [pc |-> "idle", text |-> <<>>, find |-> <<"a">>, replace |-> <<>>,
   caseSensitive |-> FALSE, searchText |-> <<>>, searchFind |-> <<"a">>,
   index |-> 0, result |-> <<>>, replacements |-> 0]

\* part_005 lines 81-83 and 93-97: run with regex = false, replaceAll = true
Replace_Call(text, find, replace, caseSensitive) ==
  /\ replaceCall.pc = "idle"
  /\ replaceCall' =
       [pc |-> "loop", text |-> text, find |-> find, replace |-> replace,
        caseSensitive |-> caseSensitive,
        searchText |-> IF caseSensitive THEN text ELSE toLowerCase(text),
        searchFind |-> IF caseSensitive THEN find ELSE toLowerCase(find),
        index |-> 0, result |-> text, replacements |-> 0]
  /\ KeepBut_replaceCall

\* part_005 lines 99-103 and 118-123: one test of the loop condition, with
\* the body of the loop or the return
Replace_Loop ==
  LET c == replaceCall
      found == indexOf(c.searchText, c.searchFind, c.index)
  IN
  /\ c.pc = "loop"
  /\ found # -1 => c.replacements < MaxReplacements
  /\ replaceCall' =
       IF found # -1
         THEN [c EXCEPT
                 !.result = substring(c.result, 0, found) \o c.replace
                              \o substringFrom(c.result, found + Len(c.find)),
                 !.replacements = @ + 1,
                 !.index = found + Len(c.replace)]
         ELSE [c EXCEPT !.pc = "returned", !.index = found]
  /\ KeepBut_replaceCall


UtilIdle ==
  /\ preloadCall = NoPreloadCall
  /\ scan = NoScan
  /\ embIndex = NoEmbIndex
  /\ files = NoFiles
  /\ cliRun = NoCliRun
  /\ executor = NoExecutor
  /\ collab = NoCollab
  /\ replaceCall = NoReplaceCall

\* no cache, loader or registry is in use
ToolingIdle ==
  /\ StoreIdle
  /\ UtilIdle
  /\ CacheIdle
  /\ toolBytes = [n \in CacheTools |-> 1]
  /\ LazyIdle
  /\ RegistryIdle
  /\ PlannerIdle

AgentIdle ==
  /\ run = NoRun
  /\ pc = "idle"
  /\ stepNo = 0
  /\ action = [type |-> "none", tool |-> "none"]
  /\ parsedOk = TRUE
  /\ interrupted = FALSE
  /\ abort = "none"
  /\ calls = 0
  /\ entry = "none"
  /\ actNo = 0
  /\ plannerCalls = 0
  /\ toolRunActs = {}
  /\ askedActs = {}
  /\ everPaused = FALSE
  /\ pauseCause = "none"
  /\ inflightIntr = 0
  /\ ioFailed = FALSE

\* lines 712-720 with store.ts 23-28: run() creates the run and saves it
Run ==
  /\ pc = "idle"
  /\ calls < MaxCalls
  /\ disk.status = "none"
  /\ calls' = calls + 1
  /\ entry' = "run"
  /\ plannerCalls' = 0
  /\ \/ /\ run' = [status |-> "running", steps |-> <<>>]
        /\ disk' = savedRun(run'.status, run'.steps)
        /\ pc' = "top"
        /\ stepNo' = 1
        /\ abort' = abort
        /\ ioFailed' = ioFailed
     \/ /\ run' = [status |-> "running", steps |-> <<>>]
        /\ disk' = disk
        /\ pc' = "aborted"
        /\ stepNo' = stepNo
        /\ abort' = "store_io"
        /\ ioFailed' = TRUE
  /\ UNCHANGED <<mode, action, parsedOk, interrupted, actNo, toolRunActs, askedActs,
                 everPaused, pauseCause, inflightIntr, now, toolingVars, breakerVars>>

\* lines 796-800: resume() of a run that is done or failed returns at once
Resume_NotResumable ==
  /\ pc = "idle"
  /\ calls < MaxCalls
  /\ disk.status # "none"
  /\ ~resumable(disk.status)
  /\ calls' = calls + 1
  /\ entry' = "resume"
  /\ plannerCalls' = 0
  /\ run' = disk
  /\ UNCHANGED <<disk, pc, stepNo, abort, mode, action, parsedOk, interrupted, actNo,
                 toolRunActs, askedActs, everPaused, pauseCause, inflightIntr, ioFailed, now, toolingVars,
                 breakerVars>>

\* lines 796-808: resume() loads the run, sets status running and saves
Resume ==
  /\ pc = "idle"
  /\ calls < MaxCalls
  /\ disk.status # "none"
  /\ resumable(disk.status)
  /\ calls' = calls + 1
  /\ entry' = "resume"
  /\ plannerCalls' = 0
  /\ run' = [disk EXCEPT !.status = "running"]
  /\ \/ /\ disk' = savedRun(run'.status, run'.steps)
        /\ pc' = "top"
        /\ stepNo' = 1
        /\ abort' = abort
        /\ ioFailed' = ioFailed
     \/ /\ disk' = disk
        /\ pc' = "aborted"
        /\ stepNo' = stepNo
        /\ abort' = "store_io"
        /\ ioFailed' = TRUE
  /\ UNCHANGED <<mode, action, parsedOk, interrupted, actNo, toolRunActs, askedActs,
                 everPaused, pauseCause, inflightIntr, now, toolingVars, breakerVars>>

\* lines 720, 792-793 (808, 871-872): the loop condition fails: the step limit is
\* reached, the run is paused and saved
Top_StepLimit ==
  /\ pc = "top"
  /\ stepLimitReached(stepNo)
  /\ \E o \in OutcomesThenStatus(<<>>, "paused") : Commit(o, "idle", stepNo)
  /\ everPaused' = TRUE
  /\ pauseCause' = "step_limit"
  /\ UNCHANGED <<mode, action, parsedOk, interrupted, calls, entry, actNo, plannerCalls,
                 toolRunActs, askedActs, inflightIntr, now, toolingVars, breakerVars>>

\* lines 721, 879-883 (809): the interrupt flag is set: markInterrupted
Top_Interrupted ==
  /\ pc = "top"
  /\ ~stepLimitReached(stepNo)
  /\ interruptedAtTop
  /\ \E o \in OutcomesThenStatus(interruptionOps("User interrupt"), "paused") :
       /\ Commit(o, "idle", stepNo)
       /\ everPaused' = (everPaused \/ o.status = "paused")
       /\ pauseCause' = IF o.status = "paused" THEN "interrupt" ELSE pauseCause
  /\ UNCHANGED <<mode, action, parsedOk, interrupted, calls, entry, actNo, plannerCalls,
                 toolRunActs, askedActs, inflightIntr, now, toolingVars, breakerVars>>

\* lines 725 (810): planner.proposeNext is called and awaited
Top_Plan ==
  /\ pc = "top"
  /\ ~stepLimitReached(stepNo)
  /\ ~interruptedAtTop
  /\ actNo < MaxActs
  /\ pc' = "planning"
  /\ actNo' = actNo + 1
  /\ plannerCalls' = plannerCalls + 1
  /\ UNCHANGED <<mode, run, disk, stepNo, action, parsedOk, interrupted, abort, calls,
                 entry, toolRunActs, askedActs, everPaused, pauseCause, inflightIntr,
                 ioFailed, now, toolingVars, breakerVars>>

\* planner lines 302-340: registry.search (line 305), llm.complete (line 319) and
\* registry.getOrLoad (line 331) are awaited with no try / catch, and neither
\* has the call at agent line 725 one: a rejection leaves run() / resume()
Planner_Throw ==
  /\ pc = "planning"
  /\ pc' = "aborted"
  /\ abort' = "planner"
  /\ UNCHANGED <<mode, run, disk, stepNo, action, parsedOk, interrupted, calls, entry,
                 actNo, plannerCalls, toolRunActs, askedActs, everPaused, pauseCause,
                 inflightIntr, ioFailed, now, toolingVars, breakerVars>>

\* lines 726, 731-736 (811-817): final_answer: thought and final steps, status done
Planner_Final ==
  /\ pc = "planning"
  /\ action' = [type |-> "final_answer", tool |-> "none"]
  /\ \E o \in OutcomesThenStatus(<<Op(Step("thought", "final_answer"), FALSE),
                                   Op(Step("final", "output"), FALSE)>>,
                                 statusAfterFinal) :
       Commit(o, "idle", stepNo)
  /\ UNCHANGED <<mode, parsedOk, interrupted, calls, entry, actNo, plannerCalls,
                 toolRunActs, askedActs, everPaused, pauseCause, inflightIntr, now, toolingVars,
                 breakerVars>>

\* lines 726, 737-747 (811, 818-828): ask_human: in mode always the approval is
\* requested first, else the question is put to the human at once
Planner_AskHuman ==
  /\ pc = "planning"
  /\ action' = [type |-> "ask_human", tool |-> "none"]
  /\ IF mode = "always"
       THEN /\ \E o \in Outcomes(<<Op(Step("thought", "ask_human"), FALSE),
                                    Op(Step("approval-request", "ask_human"), FALSE)>>) :
                 Commit(o, "ask_approval", stepNo)
            /\ UNCHANGED askedActs
       ELSE \E o \in Outcomes(<<Op(Step("thought", "ask_human"), FALSE)>>) :
              /\ Commit(o, "ask_prompt", stepNo)
              /\ askedActs' = IF o.res = "ok" THEN askedActs \cup {actNo} ELSE askedActs
  /\ UNCHANGED <<mode, parsedOk, interrupted, calls, entry, actNo, plannerCalls,
                 toolRunActs, everPaused, pauseCause, inflightIntr, now, toolingVars, breakerVars>>

\* lines 741-747 (822-828): the human answers the approval prompt of ask_human
Ask_Approval(human) ==
  LET ok == maybeApprove("always", FALSE, human)
      response == approvalResponseOps(ok)
  IN
  /\ pc = "ask_approval"
  /\ IF deniedStops(ok)
       THEN /\ \E o \in OutcomesThenStatus(response \o interruptionOps("User denied input"),
                                           "paused") :
                 /\ Commit(o, "idle", stepNo)
                 /\ everPaused' = (everPaused \/ o.status = "paused")
                 /\ pauseCause' = IF o.status = "paused" THEN "denied" ELSE pauseCause
            /\ UNCHANGED askedActs
       ELSE /\ \E o \in Outcomes(response) :
                 /\ Commit(o, "ask_prompt", stepNo)
                 /\ askedActs' = IF o.res = "ok" THEN askedActs \cup {actNo} ELSE askedActs
            /\ UNCHANGED <<everPaused, pauseCause>>
  /\ UNCHANGED <<mode, action, parsedOk, interrupted, calls, entry, actNo, plannerCalls,
                 toolRunActs, inflightIntr, now, toolingVars, breakerVars>>

\* lines 747-751 (828-832): the human answers the question; observation; continue
Ask_Answer ==
  /\ pc = "ask_prompt"
  /\ \E o \in Outcomes(<<Op(Step("observation", "human"), FALSE)>>) :
       Commit(o, "top", stepNo + 1)
  /\ UNCHANGED <<mode, action, parsedOk, interrupted, calls, entry, actNo, plannerCalls,
                 toolRunActs, askedActs, everPaused, pauseCause, inflightIntr, now, toolingVars,
                 breakerVars>>

\* lines 769-781 (849-860): the approval-response is appended; a denial pauses the
\* run; invalid args give observation{schema_validation}; else the tool is
\* executed through executeToolWithRetry
AfterApproval(prefix, t, parsed, ok) ==
  LET response == prefix \o approvalResponseOps(ok) IN
  IF deniedStops(ok)
    THEN /\ \E o \in OutcomesThenStatus(response \o interruptionOps("User denied action"),
                                        "paused") :
              /\ Commit(o, "idle", stepNo)
              /\ everPaused' = (everPaused \/ o.status = "paused")
              /\ pauseCause' = IF o.status = "paused" THEN "denied" ELSE pauseCause
         /\ UNCHANGED <<toolRunActs, breakerVars>>
    ELSE IF argsRejected(parsed)
      THEN /\ \E o \in Outcomes(response
                         \o <<Op(Step("observation", "schema_validation"), TRUE)>>) :
                Commit(o, "top", stepNo + 1)
           /\ UNCHANGED <<everPaused, pauseCause, toolRunActs, breakerVars>>
      ELSE /\ \E o \in Outcomes(response) :
                /\ Commit(o, "executing", stepNo)
                /\ IF o.res = "ok"
                     THEN /\ Execute_Begin(t)
                          /\ toolRunActs' = IF exec'.phase = "running"
                                              THEN toolRunActs \cup {actNo}
                                              ELSE toolRunActs
                     ELSE UNCHANGED <<toolRunActs, breakerVars>>
           /\ UNCHANGED <<everPaused, pauseCause>>

\* lines 765-768 (845-848): the approval-request is appended and maybeApprove is
\* called; it prompts the human or returns true at once
AfterValidation(prefix, t, parsed) ==
  LET request == prefix \o <<Op(Step("approval-request", t), FALSE)>> IN
  IF promptsHuman(mode, t \in SensitiveTools)
    THEN /\ \E o \in Outcomes(request) : Commit(o, "tool_approval", stepNo)
         /\ UNCHANGED <<everPaused, pauseCause, toolRunActs, breakerVars>>
    ELSE AfterApproval(request, t, parsed, maybeApprove(mode, t \in SensitiveTools, TRUE))

\* lines 726, 754-759 (811, 834-839): use_tool: thought step, registry.get,
\* schema.safeParse of the planner's args; invalid args go to the inferencer
Planner_UseTool(t, argsOk) ==
  LET thought == <<Op(Step("thought", "use_tool"), FALSE)>> IN
  /\ pc = "planning"
  /\ action' = [type |-> "use_tool", tool |-> t]
  /\ parsedOk' = argsOk
  /\ IF argsOk
       THEN AfterValidation(thought, t, TRUE)
       ELSE /\ \E o \in Outcomes(thought) : Commit(o, "inferring", stepNo)
            /\ UNCHANGED <<everPaused, pauseCause, toolRunActs, breakerVars>>
  /\ UNCHANGED <<mode, interrupted, calls, entry, actNo, plannerCalls, askedActs,
                 inflightIntr, now, toolingVars>>

\* lines 759-764 (839-844) with arg_infer.ts 13-65: the inferencer returns args
\* that pass the schema, args that fail it, or null; it never throws
Tool_Inferred(res) ==
  /\ pc = "inferring"
  /\ parsedOk' = (res = "valid")
  /\ AfterValidation(<<>>, action.tool, res = "valid")
  /\ UNCHANGED <<mode, action, interrupted, calls, entry, actNo, plannerCalls,
                 askedActs, inflightIntr, now, toolingVars>>

\* lines 768-770 (848-850): the human answers the approval prompt of the tool
Tool_Approval(human) ==
  /\ pc = "tool_approval"
  /\ AfterApproval(<<>>, action.tool, parsedOk,
                   maybeApprove(mode, action.tool \in SensitiveTools, human))
  /\ UNCHANGED <<mode, action, parsedOk, interrupted, calls, entry, actNo,
                 plannerCalls, askedActs, inflightIntr, now, toolingVars>>

\* lines 781-785 (860-864): the execute resolved: tool step, then observation
Tool_Succeeded ==
  /\ pc = "executing"
  /\ exec.phase = "done"
  /\ exec.result = "ok"
  /\ \E o \in Outcomes(<<Op(Step("tool", exec.tool), TRUE),
                         Op(Step("observation", "result"), TRUE)>>) :
       Commit(o, "top", stepNo + 1)
  /\ exec' = NoExec
  /\ UNCHANGED <<mode, action, parsedOk, interrupted, calls, entry, actNo, plannerCalls,
                 toolRunActs, askedActs, everPaused, pauseCause, inflightIntr, now, toolingVars,
                 toolCfg, breaker, gStreak, gOpenUntil>>

\* lines 786-790 (865-869): the execute rejected (the last error of tool.run, or
\* circuit_open): the catch block appends observation{error}
Tool_Failed ==
  /\ pc = "executing"
  /\ exec.phase = "done"
  /\ exec.result \in {"error", "circuit_open"}
  /\ \E o \in Outcomes(<<Op(Step("observation",
                                 StringOfError(errorMessage(exec.result, exec.tool))),
                            FALSE)>>) :
       Commit(o, "top", stepNo + 1)
  /\ exec' = NoExec
  /\ UNCHANGED <<mode, action, parsedOk, interrupted, calls, entry, actNo, plannerCalls,
                 toolRunActs, askedActs, everPaused, pauseCause, inflightIntr, now, toolingVars,
                 toolCfg, breaker, gStreak, gOpenUntil>>

\* executeToolWithRetry running inside the loop
Tool_RunOk == pc = "executing" /\ Execute_RunOk /\ UNCHANGED <<now, toolingVars, agentVars>>
Tool_RunFailRetry == pc = "executing" /\ Execute_RunFailRetry /\ UNCHANGED <<now, toolingVars, agentVars>>
Tool_Backoff == pc = "executing" /\ Execute_Backoff /\ UNCHANGED <<now, toolingVars, agentVars>>
Tool_RunFailLast == pc = "executing" /\ Execute_RunFailLast /\ UNCHANGED <<now, toolingVars, agentVars>>

\* line 709: the SIGINT handler sets the flag
Interrupt ==
  /\ pc # "aborted"
  /\ ~interrupted
  /\ interrupted' = TRUE
  /\ inflightIntr' = IF pc = "executing" /\ exec.phase \in {"running", "sleeping"}
                       THEN actNo ELSE inflightIntr
  /\ UNCHANGED <<mode, run, disk, pc, stepNo, action, parsedOk, abort, calls, entry,
                 actNo, plannerCalls, toolRunActs, askedActs, everPaused, pauseCause,
                 ioFailed, now, toolingVars, breakerVars>>

\* lines 692-693, 701-710: a new process constructs a new Agent: the flag and the
\* breaker start afresh; the run lives on in its file only
Restart ==
  /\ pc \in {"idle", "aborted"}
  /\ calls > 0
  /\ calls < MaxCalls
  /\ run # NoRun
  /\ pc' = "idle"
  /\ run' = NoRun
  /\ interrupted' = FALSE
  /\ inflightIntr' = 0
  /\ abort' = "none"
  /\ breaker' = [t \in Tools |-> [failures |-> 0, openedUntil |-> 0]]
  /\ gStreak' = [t \in Tools |-> 0]
  /\ gOpenUntil' = [t \in Tools |-> 0]
  /\ exec' = NoExec
  /\ UNCHANGED <<mode, disk, stepNo, action, parsedOk, calls, entry, actNo,
                 plannerCalls, toolRunActs, askedActs, everPaused, pauseCause, ioFailed, now, toolingVars,
                 toolCfg>>

\* time passes while the backoff timer of line 906 is pending, and between two
\* iterations while a circuit is open; a tick at another moment changes the
\* value of no condition of the code
Agent_Tick ==
  /\ \/ pc = "executing" /\ exec.phase = "sleeping" /\ now < exec.wakeAt
     \/ pc = "top" /\ \E t \in Tools : now < breaker[t].openedUntil
  /\ Tick
  /\ UNCHANGED <<breakerVars, agentVars, toolingVars>>

Modes == {"auto", "always", "sensitive"}

\* a run file left by an earlier process with status failed (lines 800, README
\* 594-599); the agent itself never writes this status
StoredFailedRun ==
  [status |-> "failed", steps |-> <<[kind |-> "thought", a |-> "use_tool", act |-> 0]>>]

\* the agent is run with one retry/breaker configuration for all its tools:
\* one retry is made and the circuit opens on the first failed execution (the
\* other retry counts and thresholds are explored by SpecBreaker)
AgentCfgs ==
  { c \in ToolCfgs : /\ c.retries = 1
                     /\ c.baseDelayMs = 1
                     /\ c.failureThreshold = 1
                     /\ c.cooldownMs = MaxCooldown }

Init ==
  /\ now = 1
  /\ \E c \in AgentCfgs : toolCfg = [t \in Tools |-> c]
  /\ breaker = [t \in Tools |-> [failures |-> 0, openedUntil |-> 0]]
  /\ exec = NoExec
  /\ gStreak = [t \in Tools |-> 0]
  /\ gOpenUntil = [t \in Tools |-> 0]
  /\ AgentIdle
  /\ mode \in Modes
  /\ disk \in {NoRun, StoredFailedRun}
  /\ ToolingIdle

Next ==
  \/ Run
  \/ Resume_NotResumable
  \/ Resume
  \/ Top_StepLimit
  \/ Top_Interrupted
  \/ Top_Plan
  \/ Planner_Throw
  \/ Planner_Final
  \/ Planner_AskHuman
  \/ \E human \in BOOLEAN : Ask_Approval(human)
  \/ Ask_Answer
  \/ \E t \in Tools, argsOk \in BOOLEAN : Planner_UseTool(t, argsOk)
  \/ \E res \in {"valid", "invalid", "null"} : Tool_Inferred(res)
  \/ \E human \in BOOLEAN : Tool_Approval(human)
  \/ Tool_RunOk
  \/ Tool_RunFailRetry
  \/ Tool_Backoff
  \/ Tool_RunFailLast
  \/ Tool_Succeeded
  \/ Tool_Failed
  \/ Interrupt
  \/ Restart
  \/ Agent_Tick

Spec == Init /\ [][Next]_vars

\* a step of the loop of run() / resume(): the call goes on by itself, a call
\* it awaits (planner, prompt, argument inference, tool.run) returns or throws,
\* or the backoff timer runs
LoopStep ==
  \/ Top_StepLimit
  \/ Top_Interrupted
  \/ Top_Plan
  \/ Planner_Throw
  \/ Planner_Final
  \/ Planner_AskHuman
  \/ \E human \in BOOLEAN : Ask_Approval(human)
  \/ Ask_Answer
  \/ \E t \in Tools, argsOk \in BOOLEAN : Planner_UseTool(t, argsOk)
  \/ \E res \in {"valid", "invalid", "null"} : Tool_Inferred(res)
  \/ \E human \in BOOLEAN : Tool_Approval(human)
  \/ Tool_RunOk
  \/ Tool_RunFailRetry
  \/ Tool_Backoff
  \/ Tool_RunFailLast
  \/ Tool_Succeeded
  \/ Tool_Failed
  \/ Agent_Tick

\* the calls that one Agent object serves, in one process
NextOneProcess ==
  \/ Run
  \/ Resume_NotResumable
  \/ Resume
  \/ Interrupt
  \/ LoopStep

\* the agent loop when every awaited call settles and the timers fire: the
\* event loop resumes the call as soon as the promise it awaits is settled
SpecFair == Init /\ [][NextOneProcess]_vars /\ WF_vars(LoopStep)

(***************************************************************************)
(* SpecBreaker: a caller that issues execute calls one after the other,    *)
(* as the agent loop does (lines 781, 860)                                  *)
(***************************************************************************)
Caller_Execute(t) == Execute_Begin(t) /\ UNCHANGED <<now, toolingVars, agentVars>>

Caller_Return ==
  /\ exec.phase = "done"
  /\ exec' = NoExec
  /\ UNCHANGED <<now, toolingVars, toolCfg, breaker, gStreak, gOpenUntil, agentVars>>

Caller_RunOk == Execute_RunOk /\ UNCHANGED <<now, toolingVars, agentVars>>
Caller_RunFailRetry == Execute_RunFailRetry /\ UNCHANGED <<now, toolingVars, agentVars>>
Caller_Backoff == Execute_Backoff /\ UNCHANGED <<now, toolingVars, agentVars>>
Caller_RunFailLast == Execute_RunFailLast /\ UNCHANGED <<now, toolingVars, agentVars>>
Caller_Tick == Tick /\ UNCHANGED <<breakerVars, agentVars, toolingVars>>

NextBreaker ==
  \/ \E t \in Tools : Caller_Execute(t)
  \/ Caller_RunOk
  \/ Caller_RunFailRetry
  \/ Caller_Backoff
  \/ Caller_RunFailLast
  \/ Caller_Return
  \/ Caller_Tick

InitBreaker ==
  /\ now = 1
  /\ BreakerInit
  /\ AgentIdle
  /\ mode = "auto"
  /\ disk = NoRun
  /\ ToolingIdle

SpecBreaker == InitBreaker /\ [][NextBreaker]_vars

(***************************************************************************)
(* SpecCache: callers of DynamicToolCache.get, preloadSimilar and the      *)
(* periodic cleanup, in any interleaving                                   *)
(***************************************************************************)
Cache_Tick == Tick /\ UNCHANGED <<breakerVars, agentVars, toolingVars>>

\* nothing but the component under study is in use
OthersIdle ==
  /\ now = 1
  /\ \E c \in AgentCfgs : toolCfg = [t \in Tools |-> c]
  /\ breaker = [t \in Tools |-> [failures |-> 0, openedUntil |-> 0]]
  /\ exec = NoExec
  /\ gStreak = [t \in Tools |-> 0]
  /\ gOpenUntil = [t \in Tools |-> 0]
  /\ AgentIdle
  /\ mode = "auto"
  /\ disk = NoRun

InitCache ==
  /\ OthersIdle
  /\ StoreIdle
  /\ UtilIdle
  /\ CacheIdle
  /\ toolBytes \in [CacheTools -> 1..MaxToolBytes]
  /\ LazyIdle
  /\ RegistryIdle
  /\ PlannerIdle

NextCache ==
  \/ \E name \in CacheTools : Cache_GetHit(name)
  \/ \E name \in CacheTools : Cache_GetMiss(name)
  \/ \E names \in SUBSET CacheTools : Cache_Preload(names)
  \/ \E name \in CacheTools : Cache_LoaderNull(name)
  \/ \E name \in CacheTools : Cache_LoaderDone(name)
  \/ \E name \in CacheTools : Cache_Insert(name)
  \/ Cache_Cleanup
  \/ Cache_Tick

SpecCache == InitCache /\ [][NextCache]_vars

(***************************************************************************)
(* SpecLazy: callers of ToolRegistry.getOrLoad, in any interleaving        *)
(***************************************************************************)
InitLazy ==
  /\ OthersIdle
  /\ ToolingIdle

NextLazy ==
  \/ \E p \in Callers, name \in LazyNames : GetOrLoad_Call(p, name)
  \/ \E p \in Callers : Import_Resolved(p)
  \/ \E p \in Callers : Import_Rejected(p)
  \/ \E p \in Callers : GetOrLoad_Register(p)
  \/ \E p \in Callers : GetOrLoad_Return(p)
  \/ \E p \in Callers : GetOrLoad_Undefined(p)

SpecLazy == InitLazy /\ [][NextLazy]_vars

(***************************************************************************)
(* SpecRegistry: callers of UltraScaleToolRegistry.initialize, search and  *)
(* getOrLoad, in any interleaving                                          *)
(***************************************************************************)
InitRegistry ==
  /\ OthersIdle
  /\ ToolingIdle

NextRegistry ==
  \/ \E p \in Users, op \in RegistryOps, k \in 1..SearchTopK : Registry_Call(p, op, k)
  \/ \E p \in Users : Registry_Scanned(p)
  \/ \E p \in Users : Registry_Indexed(p)
  \/ \E p \in Users : Registry_Initialized(p)
  \/ \E p \in Users, sim \in [CatalogNames -> 1..MaxSimilarity] : Registry_Searched(p, sim)
  \/ \E p \in Users : Registry_Get(p)
  \/ \E p \in Users : Registry_Got(p)
  \/ \E p \in Users : Registry_Preload(p)
  \/ \E name \in CatalogNames : Cache_LoaderNull(name)
  \/ \E name \in CatalogNames : Cache_LoaderDone(name)
  \/ \E name \in CatalogNames : Cache_Insert(name)

SpecRegistry == InitRegistry /\ [][NextRegistry]_vars

(***************************************************************************)
(* SpecPlanner: the loop of Agent.run seen from the planner: proposeNext   *)
(* is called with the history that the executed actions have built         *)
(***************************************************************************)
InitPlanner ==
  /\ OthersIdle
  /\ StoreIdle
  /\ UtilIdle
  /\ CacheIdle
  /\ toolBytes = [n \in CacheTools |-> 1]
  /\ LazyIdle
  /\ RegistryIdle
  /\ pTask \in Tasks
  /\ pNames \in SUBSET PlannerTools
  /\ pHistory = <<>>
  /\ pAction = NoAction
  /\ pSteps = <<>>
  /\ pLive = <<>>
  /\ pResumed = FALSE

NextPlanner ==
  \/ \E llm \in LlmOutputs : Planner_Propose(llm)
  \/ \E long \in BOOLEAN, value \in Values \cup {NoValue} : Planner_ToolUsed(long, value)
  \/ Planner_ToolFailed
  \/ Planner_HumanAnswered

SpecPlanner == InitPlanner /\ [][NextPlanner]_vars

\* the same loop, interrupted and resumed once between two iterations
NextResume ==
  \/ \E llm \in LlmOutputs : Planner_Propose(llm)
  \/ \E long \in BOOLEAN, value \in Values \cup {NoValue} : Planner_ToolUsed(long, value)
  \/ Planner_ToolFailed
  \/ Planner_HumanAnswered
  \/ Planner_Resume

SpecResume == InitPlanner /\ [][NextResume]_vars

\* the same loop on the tasks "L vs R"
InitCompare ==
  /\ OthersIdle
  /\ StoreIdle
  /\ UtilIdle
  /\ CacheIdle
  /\ toolBytes = [n \in CacheTools |-> 1]
  /\ LazyIdle
  /\ RegistryIdle
  /\ pTask \in VsTasks
  /\ pNames \in { s \in SUBSET PlannerTools : "calculator" \in s }
  /\ pHistory = <<>>
  /\ pAction = NoAction
  /\ pSteps = <<>>
  /\ pLive = <<>>
  /\ pResumed = FALSE

SpecCompare == InitCompare /\ [][NextResume]_vars

\* the store alone
InitStore ==
  /\ OthersIdle
  /\ ToolingIdle

NextStore ==
  \/ \E ok \in BOOLEAN : Store_Create(ok)
  \/ \E st \in StoreSteps, ok \in BOOLEAN : Store_AppendStep(st, ok)
  \/ Store_Load
  \/ Store_Tick

SpecStore == InitStore /\ [][NextStore]_vars

\* the components outside the agent loop start idle
InitUtil ==
  /\ OthersIdle
  /\ ToolingIdle

NextPreload ==
  \/ \E op \in {"search", "optimizeForTask"}, embedded \in BOOLEAN : Preload_Call(op, embedded)
  \/ \E names \in SUBSET CacheTools : Preload_Searched(names)
  \/ Preload_SearchRejected
  \/ \E n \in CacheTools, ok \in BOOLEAN : Preload_Loaded(n, ok)

SpecPreload == InitUtil /\ [][NextPreload]_vars

\* the sub-sequences of a sequence
RECURSIVE SubSeqs(_)
SubSeqs(q) ==
  IF q = <<>> THEN {<<>>}
  ELSE LET rest == SubSeqs(Tail(q)) IN rest \cup { <<Head(q)>> \o r : r \in rest }

NextScan ==
  \/ \E dir \in SubSeqs(ScanFiles) : Scan_Begin(dir)
  \/ Scan_File
  \/ Scan_End

SpecScan == InitUtil /\ [][NextScan]_vars

NextIndex ==
  \/ \E apiKey \in BOOLEAN : Index_Start(apiKey)
  \/ \E e \in IndexEntries : Index_Register(e)
  \/ \E kind \in {"removed", "damaged", "edited"} : Index_FileChanged(kind)
  \/ Index_Build
  \/ Index_Embedded

SpecIndex == InitUtil /\ [][NextIndex]_vars

NextFiles ==
  \/ \E path \in Paths, content \in Contents, overwrite \in BOOLEAN :
       Write_Call(path, content, overwrite)
  \/ \E denied \in BOOLEAN : Write_Stat(denied)
  \/ Write_Catch
  \/ Write_Write
  \/ \E path \in Paths : Write_Unlink(path)

SpecFiles == InitUtil /\ [][NextFiles]_vars

NextCli ==
  \/ \E flagMax, flagTopk \in FlagValues, envMax, envTopk \in EnvValues :
       Cli_Parse(flagMax, flagTopk, envMax, envTopk)
  \/ Cli_LoadConfig
  \/ Cli_Run

SpecCli == InitUtil /\ [][NextCli]_vars

NextExec ==
  \/ \E name \in TaskSetNames, io \in BOOLEAN : Exec_Call(name, io)
  \/ Exec_Iterate
  \/ Exec_Resume
  \/ \E id \in ExecIds, ok \in BOOLEAN : Task_Settle(id, ok)

SpecExec == InitUtil /\ [][NextExec]_vars

NextCollab ==
  \/ \E agents \in 2..MaxAgents : Collab_Start(agents)
  \/ Collab_Launch
  \/ Child_Top
  \/ \E final \in BOOLEAN : Child_Planned(final)
  \/ Child_ToolDone
  \/ Collab_Collect
  \/ Collab_Synthesize
  \/ Collab_Sigint

SpecCollab == InitUtil /\ [][NextCollab]_vars

NextReplace ==
  \/ \E text \in StringsUpTo(MaxTextLen), find \in StringsUpTo(MaxFindLen) \ {<<>>},
        replace \in StringsUpTo(MaxFindLen), caseSensitive \in BOOLEAN :
       Replace_Call(text, find, replace, caseSensitive)
  \/ Replace_Loop

SpecReplace == InitUtil /\ [][NextReplace]_vars

\* the continuation of the call runs when it is queued, and a running tool
\* call settles when its completion can be delivered
SpecExecFair ==
  /\ SpecExec
  /\ WF_vars(Exec_Iterate)
  /\ WF_vars(Exec_Resume)
  /\ \A id \in ExecIds : WF_vars(\E ok \in BOOLEAN : Task_Settle(id, ok))

(***************************************************************************)
(* C1: after failureThreshold consecutive failed executes of a tool        *)
(* (counted from its last success or its last opening), every execute of  *)
(* that tool begun before cooldownMs has elapsed since the last of those  *)
(* failures is rejected with circuit_open and never invokes tool.run.     *)
(***************************************************************************)
C1_CircuitOpenAfterThreshold ==
  (exec.phase # "none" /\ exec.inWindow)
    => (exec.phase = "done" /\ exec.result = "circuit_open" /\ exec.runs = 0)

C1_Witness ==
  /\ exec.phase = "done"
  /\ exec.inWindow
  /\ exec.result = "circuit_open"
  /\ toolCfg[exec.tool].failureThreshold = 2

(***************************************************************************)
(* Properties of the agent loop (specification Spec)                       *)
(***************************************************************************)
HasKind(steps, kind) == \E i \in DOMAIN steps : steps[i].kind = kind

HasStep(steps, kind, n) ==
  \E i \in DOMAIN steps : steps[i].kind = kind /\ steps[i].act = n

LastKind(steps) == IF steps = <<>> THEN "none" ELSE steps[Len(steps)].kind

\* the steps that the transition has appended to the run held by the call
Appended == { i \in DOMAIN run'.steps : i > Len(run.steps) }

C2_ToolRunsApproved ==
  \A n \in toolRunActs :
    \E i \in DOMAIN disk.steps : /\ disk.steps[i].kind = "approval-response"
                                 /\ disk.steps[i].act = n
                                 /\ disk.steps[i].a = "yes"

C2_DeniedActsDoNothing ==
  \A i \in DOMAIN run.steps :
    (run.steps[i].kind = "approval-response" /\ run.steps[i].a = "no")
      => run.steps[i].act \notin (toolRunActs \cup askedActs)

C2_DenialStep ==
  (/\ calls' = calls
   /\ \E i \in Appended : /\ run'.steps[i].kind = "approval-response"
                          /\ run'.steps[i].a = "no")
    => /\ toolRunActs' = toolRunActs
       /\ askedActs' = askedActs
       /\ exec' = exec
       /\ \/ pc' = "aborted" /\ abort' = "store_io"
          \/ /\ pc' = "idle"
             /\ run'.status = "paused"
             /\ disk' = run'
             /\ LastKind(run'.steps) = "interruption"
             /\ run'.steps[Len(run'.steps) - 1].kind = "approval-response"
             /\ run'.steps[Len(run'.steps) - 1].a = "no"

(***************************************************************************)
(* C2: tool.run is invoked for an action only after an approval-response   *)
(* step with approved = true of that action has been stored; a step that   *)
(* records a denial (of a use_tool action, or of an ask_human action in    *)
(* mode always) appends approval-response{approved: false} and then an     *)
(* interruption step and leaves the run paused (or the call rejects on a   *)
(* failed write), and for that action neither the tool is run nor the      *)
(* question asked.                                                         *)
(***************************************************************************)
C2_ApprovalGatesTool ==
  /\ [](C2_ToolRunsApproved /\ C2_DeniedActsDoNothing)
  /\ [][C2_DenialStep]_vars

\* a tool has run with approval, and a later action was denied: the run is paused
C2_Witness ==
  /\ toolRunActs # {}
  /\ run.status = "paused"
  /\ pauseCause = "denied"
  /\ LastKind(run.steps) = "interruption"
  /\ \E i \in DOMAIN run.steps : /\ run.steps[i].kind = "approval-response"
                                /\ run.steps[i].a = "no"
                                /\ run.steps[i].act = actNo

(***************************************************************************)
(* C3: in every reachable state of the dynamic tool cache, after any       *)
(* interleaving of get, preload and sweep (concurrent loads of different   *)
(* tools included), the cache holds at most MaxCacheSize entries and the   *)
(* sum of their estimated sizes is at most MaxCacheBytes.                  *)
(***************************************************************************)
C3_CacheWithinLimits ==
  /\ Len(cache) <= MaxCacheSize
  /\ getTotalMemoryUsage(cache) <= MaxCacheBytes

(***************************************************************************)
(* C4: for concurrent getOrLoad(x) calls made while x is not loaded, the   *)
(* source loader of x is invoked once per successful load: as a loaded     *)
(* tool is never unloaded by the registry, at most one load of x succeeds, *)
(* and every load begun beyond the first follows a failed one.             *)
(***************************************************************************)
C4_LoaderOncePerLoad ==
  \A name \in LazyNames :
    /\ loadsDone[name] <= 1
    /\ Cardinality({ p \in Callers : getter[p].pc = "importing"
                                      /\ getter[p].name = name }) <= 1

(***************************************************************************)
(* C5: under concurrent first use of the UltraScaleToolRegistry,           *)
(* initialization takes effect once, the vector index holds exactly one    *)
(* entry for each cataloged tool, and a search never returns a tool twice. *)
(***************************************************************************)
C5_InitializedOnce ==
  /\ initRuns <= 1
  /\ NoDuplicates(index)
  /\ initialized => { index[i] : i \in DOMAIN index } = toolMetadata
  /\ \A p \in Users : NoDuplicates(user[p].result)

(***************************************************************************)
(* C6: in every reachable state the run's step list (in memory and in the  *)
(* run file) contains a final step if and only if the run's status is done *)
(***************************************************************************)
C6_FinalIffDone ==
  /\ run.status # "none" => (HasKind(run.steps, "final") <=> run.status = "done")
  /\ disk.status # "none" => (HasKind(disk.steps, "final") <=> disk.status = "done")

C7_PauseStep ==
  (calls' = calls /\ run.status # "paused" /\ run'.status = "paused")
    => IF pauseCause' = "step_limit"
         THEN run'.steps = run.steps
         ELSE /\ pauseCause' \in {"interrupt", "denied"}
              /\ Appended # {}
              /\ LastKind(run'.steps) = "interruption"

C7_InterruptionStep ==
  (disk'.steps # disk.steps /\ LastKind(disk'.steps) = "interruption")
    => run'.status = "paused" /\ pauseCause' \in {"interrupt", "denied"}

ObservationRecorded(steps, n) ==
  /\ HasStep(steps, "observation", n)
  /\ \A j \in DOMAIN steps :
       (steps[j].kind = "observation" /\ steps[j].act = n /\ steps[j].a = "result")
         => j > 1 /\ steps[j - 1].kind = "tool" /\ steps[j - 1].act = n

C9_ResumeStep ==
  (calls' = calls + 1 /\ entry' = "resume")
    => IF disk.status \in {"done", "failed"}
         THEN /\ disk' = disk
              /\ run' = disk
              /\ pc' = "idle"
              /\ plannerCalls' = 0
              /\ actNo' = actNo
              /\ toolRunActs' = toolRunActs
              /\ askedActs' = askedActs
              /\ exec' = exec
         ELSE /\ disk.status \in {"running", "paused"}
              /\ run'.status = "running"
              /\ run'.steps = disk.steps
              /\ plannerCalls' = 0
              /\ \/ pc' = "top" /\ disk' = run'
                 \/ pc' = "aborted" /\ abort' = "store_io" /\ disk' = disk

(***************************************************************************)
(* C9: resume on a stored run with status done or failed appends no step,  *)
(* leaves the stored run and its status unchanged and calls neither the    *)
(* planner nor a tool; resume on a run with status running or paused sets  *)
(* the status to running, and the call makes at most MaxSteps planner      *)
(* calls.                                                                  *)
(***************************************************************************)
C9_Resume ==
  /\ [](plannerCalls <= MaxSteps)
  /\ [](entry = "resume" /\ disk.status = "failed" => disk = StoredFailedRun)
  /\ [][C9_ResumeStep]_vars

\* a resume of a run that is done has returned
C9_Witness ==
  /\ entry = "resume"
  /\ pc = "idle"
  /\ plannerCalls = 0
  /\ disk.status = "done"
  /\ run = disk
  /\ calls = 2

(***************************************************************************)
(* C10: run() / resume() terminates abnormally only on a failed write of   *)
(* the run file: no other error of a step leaves the loop.                 *)
(***************************************************************************)
C10_OnlyStoreFailureAborts == pc = "aborted" => abort = "store_io"

(***************************************************************************)
(* C11: proposeNext never returns use_tool(T, A) when the history already  *)
(* records an execution of T with the same arguments A, whichever of the   *)
(* intelligent fallback, the heuristic fallback and the LLM step made the  *)
(* proposal.                                                               *)
(***************************************************************************)
C11_NoRepeatedProposal ==
  pAction.type = "use_tool"
    => ~ \E i \in DOMAIN pHistory : /\ pHistory[i].kind = "used"
                                    /\ pHistory[i].tool = pAction.tool
                                    /\ pHistory[i].args = pAction.args

(***************************************************************************)
(* C12: (as long as no write of the run file fails) every observation step *)
(* that records the outcome of a tool execution, a result or an execution  *)
(* error, is immediately preceded by the tool step of the same action, and *)
(* every tool step is immediately followed by an observation step of the   *)
(* same action.                                                            *)
(***************************************************************************)
C12_ToolStepBeforeObservation ==
  ~ioFailed =>
    /\ \A i \in DOMAIN disk.steps :
         (/\ disk.steps[i].kind = "observation"
          /\ disk.steps[i].a \in {"result", StringOfError("run_failed")})
           => /\ i > 1
              /\ disk.steps[i - 1].kind = "tool"
              /\ disk.steps[i - 1].act = disk.steps[i].act
    /\ \A i \in DOMAIN disk.steps :
         disk.steps[i].kind = "tool"
           => /\ i < Len(disk.steps)
              /\ disk.steps[i + 1].kind = "observation"
              /\ disk.steps[i + 1].act = disk.steps[i].act

ApprovalPairs(steps) ==
  /\ \A i \in DOMAIN steps :
       steps[i].kind = "approval-request"
         => IF i = Len(steps)
              THEN pc \in {"ask_approval", "tool_approval"}
              ELSE /\ steps[i + 1].kind = "approval-response"
                   /\ steps[i + 1].act = steps[i].act
  /\ \A i \in DOMAIN steps :
       steps[i].kind = "approval-response"
         => /\ i > 1
            /\ steps[i - 1].kind = "approval-request"
            /\ steps[i - 1].act = steps[i].act

(***************************************************************************)
(* C13: in every approval mode (as long as no write of the run file fails) *)
(* every approval-request step is immediately followed by one              *)
(* approval-response step of the same action, approved or denied, and      *)
(* every approval-response step is immediately preceded by its             *)
(* approval-request; a request is the last step only while the human is    *)
(* being prompted.                                                         *)
(***************************************************************************)
C13_RequestThenResponse ==
  ~ioFailed => ApprovalPairs(disk.steps) /\ ApprovalPairs(run.steps)

\* a run in which one action was approved and a later one denied
C13_Witness ==
  /\ ~ioFailed
  /\ \E i, j \in DOMAIN disk.steps :
       /\ i < j
       /\ disk.steps[i].kind = "approval-response" /\ disk.steps[i].a = "yes"
       /\ disk.steps[j].kind = "approval-response" /\ disk.steps[j].a = "no"
       /\ disk.steps[j - 1].kind = "approval-request"

\* C14: the persisted steps are append-only: in every transition of a run
\* (run, appendStep, save, interrupt, restart of the process, resume) the step
\* sequence in the file before it is a prefix of the step sequence after it
IsPrefix(s, t) == Len(s) <= Len(t) /\ \A i \in DOMAIN s : s[i] = t[i]

C14_AppendOnly == [][IsPrefix(disk.steps, disk'.steps)]_vars

\* a resumed run has written further steps after the interruption step of its
\* first call
C14_Witness ==
  /\ entry = "resume"
  /\ ~ioFailed
  /\ \E i, j \in DOMAIN disk.steps :
       /\ i < j
       /\ disk.steps[i].kind = "interruption"
       /\ disk.steps[j].kind = "thought"

\* C15: one call of run() or resume() calls the planner at most MaxSteps times;
\* a call that returns without a final answer leaves the persisted status
\* paused (step limit, denial or interrupt); and, every awaited call settling,
\* a call ends
CallRunning == pc \notin {"idle", "aborted"}

CallEnded == pc \in {"idle", "aborted"}

\* the call returns (it does not throw) and its writes were made
CallReturns == CallRunning /\ pc' = "idle" /\ ~ioFailed'

C15_ReturnStep ==
  CallReturns =>
    /\ disk'.status = IF LastKind(disk'.steps) = "final" THEN "done" ELSE "paused"
    /\ LastKind(disk'.steps) \notin {"final", "interruption"}
          => stepLimitReached(stepNo) /\ plannerCalls = MaxSteps

\* the longest time one execute sleeps: the sum of its backoff delays
CallSleep(cfg) == cfg.baseDelayMs * (Pow2(cfg.retries) - 1)

\* a call at the top of its first iteration, far enough from the bounds of the
\* model (clock, planner calls) for a whole call
CallStarted ==
  /\ pc = "top"
  /\ stepNo = 1
  /\ plannerCalls = 0
  /\ actNo + MaxSteps <= MaxActs
  /\ \A t \in Tools :
       /\ breaker[t].openedUntil <= now
       /\ now + MaxSteps * CallSleep(toolCfg[t])
              + (MaxSteps - 1) * toolCfg[t].cooldownMs <= MaxTime

C15_BoundedCall ==
  /\ [](plannerCalls <= MaxSteps)
  /\ [][C15_ReturnStep]_vars
  /\ (CallStarted ~> CallEnded)

\* a resumed run has called the planner MaxSteps times and is paused by the
\* step limit
C15_Witness ==
  /\ entry = "resume"
  /\ pc = "idle"
  /\ plannerCalls = MaxSteps
  /\ pauseCause = "step_limit"
  /\ disk.status = "paused"
  /\ LastKind(disk.steps) \notin {"final", "interruption"}
  /\ ~ioFailed

\* C16 (as stated): in mode auto every action is approved with no prompt; in
\* mode sensitive a tool action is approved if and only if the tool is not
\* sensitive; the human is prompted in mode always only
Prompting == pc \in {"ask_approval", "tool_approval"}

ResponseTo(steps, i) == steps[i + 1].kind = "approval-response"

C16_ApprovalByMode ==
  /\ Prompting => mode = "always"
  /\ \A i \in DOMAIN run.steps :
       /\ run.steps[i].kind = "approval-request"
       /\ i < Len(run.steps)
       /\ ResponseTo(run.steps, i)
       => /\ mode = "auto" => run.steps[i + 1].a = "yes"
          /\ mode = "sensitive"
               => (run.steps[i + 1].a = "yes" <=> run.steps[i].a \notin SensitiveTools)

\* C16 (amended): in mode auto, and in mode sensitive for a tool that is not
\* sensitive, the action is approved with no prompt; in mode sensitive for a
\* sensitive tool, and in mode always for every action, the human is prompted,
\* and a denial is recorded only after a prompt
NoPromptFor(a) ==
  \/ mode = "auto"
  \/ mode = "sensitive" /\ a \notin SensitiveTools

C16_RequestStep ==
  \A i \in Appended :
    CallRunning /\ run'.steps[i].kind = "approval-request" =>
      IF NoPromptFor(run'.steps[i].a)
        THEN \/ pc' = "aborted"
             \/ /\ i + 1 \in Appended
                /\ run'.steps[i + 1] = [kind |-> "approval-response", a |-> "yes",
                                        act |-> run'.steps[i].act]
                /\ ~Prompting'
        ELSE /\ i = Len(run'.steps)
             /\ Prompting' \/ pc' = "aborted"

C16_ResponseStep ==
  \A i \in Appended :
    CallRunning /\ run'.steps[i].kind = "approval-response" /\ run'.steps[i].a = "no"
      => Prompting /\ ~NoPromptFor(IF pc = "ask_approval" THEN "ask_human" ELSE action.tool)

C16_ApprovalPolicy ==
  /\ [](Prompting => ~NoPromptFor(IF pc = "ask_approval" THEN "ask_human" ELSE action.tool))
  /\ [][C16_RequestStep /\ C16_ResponseStep]_vars

\* in mode sensitive the human was prompted for the sensitive tool and said
\* yes, and the tool ran
C16_Witness ==
  /\ mode = "sensitive"
  /\ ~ioFailed
  /\ \E i \in DOMAIN run.steps :
       /\ run.steps[i].kind = "approval-request"
       /\ run.steps[i].a \in SensitiveTools
       /\ i < Len(run.steps)
       /\ run.steps[i + 1] = [kind |-> "approval-response", a |-> "yes",
                              act |-> run.steps[i].act]
       /\ run.steps[i].act \in toolRunActs

\* C17: when the execute of a use_tool action is rejected by an open circuit,
\* tool.run is not invoked, the run stays running, an observation whose error
\* value equals circuit_open:<toolName> is appended, and the loop goes to its
\* next iteration
CircuitOpenHandled ==
  /\ pc = "executing"
  /\ exec.phase = "done"
  /\ exec.result = "circuit_open"
  /\ exec' = NoExec
  /\ ~ioFailed'

C17_CircuitOpenStep ==
  CircuitOpenHandled =>
    /\ exec.runs = 0
    /\ actNo \notin toolRunActs
    /\ run'.status = "running"
    /\ disk'.status = "running"
    /\ run'.steps = Append(run.steps, Step("observation", "circuit_open:" \o exec.tool))
    /\ disk'.steps = run'.steps
    /\ pc' = "top"
    /\ stepNo' = stepNo + 1

C17_CircuitOpenObservation == [][C17_CircuitOpenStep]_vars

\* C18: the failure counter of a tool changes only when an execute call ends:
\* a failed execute (its retries exhausted) adds exactly one, or, when that
\* reaches failureThreshold, opens the circuit until now + cooldownMs and
\* resets the counter to 0; a successful execute resets it to 0; so the counter
\* is the number of failed executes since the last success or opening, and the
\* circuit opens only at the failureThreshold-th of them
ExecuteEnds == exec.phase = "running" /\ exec'.phase = "done"

C18_CounterStep ==
  /\ ~ExecuteEnds => breaker' = breaker
  /\ ExecuteEnds =>
       LET t == exec.tool
           cfg == toolCfg[t]
       IN /\ \A u \in Tools \ {t} : breaker'[u] = breaker[u]
          /\ exec'.result = "ok" => breaker'[t] = [failures |-> 0, openedUntil |-> 0]
          /\ exec'.result = "error" =>
               /\ exec.runs = cfg.retries + 1
               /\ IF breaker[t].failures + 1 >= cfg.failureThreshold
                    THEN /\ breaker'[t] = [failures |-> 0,
                                           openedUntil |-> now + cfg.cooldownMs]
                         /\ gStreak[t] + 1 = cfg.failureThreshold
                    ELSE breaker'[t] = [failures |-> breaker[t].failures + 1,
                                        openedUntil |-> 0]

C18_CounterSemantics ==
  /\ [](\A t \in Tools : /\ breaker[t].failures = gStreak[t]
                          /\ breaker[t].failures < toolCfg[t].failureThreshold)
  /\ [][C18_CounterStep]_vars

\* an execute of a tool with two retries and threshold 2 has failed after
\* three attempts, and the counter of the tool is 1
C18_Witness ==
  /\ exec.phase = "done"
  /\ exec.result = "error"
  /\ exec.runs = 3
  /\ toolCfg[exec.tool].failureThreshold = 2
  /\ breaker[exec.tool] = [failures |-> 1, openedUntil |-> 0]

\* C19: one execute on a closed circuit invokes tool.run at most retries + 1
\* times and not again after a success; after failed attempt number a
\* (a = 0 .. retries - 1) the next attempt is made no sooner than
\* baseDelayMs * 2^a later; the execute fails only after retries + 1 failed
\* invocations, with the error of the last one
C19_RetryStep ==
  LET cfg == toolCfg[exec.tool] IN
  /\ exec.phase = "running" /\ exec'.phase = "sleeping" =>
       /\ exec.attempt < cfg.retries
       /\ exec'.wakeAt = now + cfg.baseDelayMs * Pow2(exec.attempt)
       /\ exec'.runs = exec.runs
  /\ exec.phase = "sleeping" /\ exec'.phase = "running" =>
       /\ now >= exec.wakeAt
       /\ exec'.runs = exec.runs + 1
       /\ exec'.attempt = exec.attempt + 1
  /\ exec.phase = "running" /\ exec'.phase = "done" /\ exec'.result = "error" =>
       /\ exec.attempt = cfg.retries
       /\ exec'.runs = cfg.retries + 1
  /\ exec.phase = "done" /\ exec'.phase # "none" => exec'.runs = exec.runs

C19_RetryAndBackoff ==
  /\ [](exec.phase # "none" => /\ exec.runs <= toolCfg[exec.tool].retries + 1
                               /\ exec.result # "circuit_open" => exec.runs = exec.attempt + 1)
  /\ [][C19_RetryStep]_vars

\* the second attempt of an execute with base delay 2 has failed, and the
\* third is due 4 later
C19_Witness ==
  /\ exec.phase = "sleeping"
  /\ exec.attempt = 1
  /\ toolCfg[exec.tool].baseDelayMs = 2
  /\ exec.wakeAt = now + 4

\* C20: the circuit of a tool is open for cooldownMs from its opening and no
\* longer; the first execute of the tool begun once that time has elapsed
\* invokes tool.run, with the failure counter at 0
ExecuteBegins == exec.phase = "none" /\ exec'.phase # "none"

C20_RecoveryStep ==
  ExecuteBegins =>
    LET t == exec'.tool IN
    now >= gOpenUntil[t] =>
      /\ exec'.phase = "running"
      /\ exec'.runs = 1
      /\ breaker[t].openedUntil # 0 => exec'.failures = 0 /\ breaker[t].failures = 0

C20_AutomaticRecovery ==
  /\ [](\A t \in Tools :
         /\ breaker[t].openedUntil # 0 => breaker[t].openedUntil = gOpenUntil[t]
         /\ gOpenUntil[t] <= now + toolCfg[t].cooldownMs)
  /\ [][C20_RecoveryStep]_vars

\* the circuit of the tool was opened, its cooldown has elapsed, and an execute
\* of the tool is running again
C20_Witness ==
  /\ exec.phase = "running"
  /\ exec.runs = 1
  /\ breaker[exec.tool].openedUntil # 0
  /\ exec.startedAt >= breaker[exec.tool].openedUntil

\* C21: when neither the planner's args nor the inferred args pass the schema
\* and the action is approved, tool.run is not invoked: the observation
\* schema_validation follows the approval-response, no tool step is appended,
\* the run stays running and the loop goes to its next iteration
ApprovedInStep ==
  \E i \in Appended : run'.steps[i].kind = "approval-response" /\ run'.steps[i].a = "yes"

\* a write of the step failed: the call threw, or the catch block recorded it
WriteFailedInStep ==
  \/ ioFailed'
  \/ \E i \in Appended : run'.steps[i].a = StringOfError("write_failed")

C21_InvalidArgsStep ==
  CallRunning /\ pc \in {"inferring", "tool_approval"} /\ ApprovedInStep
    /\ ~parsedOk' /\ ~WriteFailedInStep
    => /\ run'.steps[Len(run'.steps)] = Step("observation", "schema_validation")
       /\ run'.steps[Len(run'.steps) - 1].kind = "approval-response"
       /\ \A i \in Appended : run'.steps[i].kind # "tool"
       /\ disk' = run'
       /\ run'.status = "running"
       /\ exec' = NoExec
       /\ toolRunActs' = toolRunActs
       /\ pc' = "top"
       /\ stepNo' = stepNo + 1

C21_SchemaValidation ==
  /\ [](\A i \in DOMAIN run.steps :
          run.steps[i].kind = "observation" /\ run.steps[i].a = "schema_validation"
            => /\ run.steps[i].act \notin toolRunActs
               /\ ~HasStep(run.steps, "tool", run.steps[i].act))
  /\ [][C21_InvalidArgsStep]_vars

\* in mode always the human approved a tool action whose args are invalid, and
\* the observation schema_validation is the last step of the running run
C21_Witness ==
  /\ mode = "always"
  /\ pc = "top"
  /\ ~ioFailed
  /\ ~parsedOk
  /\ disk.status = "running"
  /\ Len(disk.steps) >= 2
  /\ disk.steps[Len(disk.steps)] = Step("observation", "schema_validation")
  /\ disk.steps[Len(disk.steps) - 1] = Step("approval-response", "yes")

\* C22: after an interrupt and a resume the planner proposes what it would
\* propose at the same point of the uninterrupted run: called with the history
\* rebuilt from the steps (and the lines pushed since) and with the history of
\* the uninterrupted run, proposeNext returns the same action
C22_ResumeTransparent ==
  pResumed /\ pAction = NoAction =>
    \A llm \in LlmOutputs :
      proposeNext(pTask, pHistory, pNames, llm) = proposeNext(pTask, pLive, pNames, llm)

\* C23: the history rebuilt from the stored steps holds, in step order, the
\* line "Used T with A" of each tool step, a line "Observed: ..." for each
\* observation step, a line "Final: ..." for each final step, and a line
\* "Human: ..." for each human answer recorded in the run
StepsOfKind(steps, kind) == SelectSeq(steps, LAMBDA x : x.kind = kind)

HumanAnswers(steps) == SelectSeq(steps, LAMBDA x : x.what = "human")

C23_HistoryFromSteps ==
  LET h == stepsToHistory(pSteps)
      tools == StepsOfKind(pSteps, "tool")
      withs == StepsOfKind(h, "with")
  IN
  pResumed =>
    /\ Len(withs) = Len(tools)
    /\ \A i \in DOMAIN tools : withs[i] = WithLine(tools[i].tool, tools[i].args)
    /\ Len(StepsOfKind(h, "observed")) = Len(StepsOfKind(pSteps, "observation"))
    /\ Len(StepsOfKind(h, "final")) = Len(StepsOfKind(pSteps, "final"))
    /\ Len(StepsOfKind(h, "human")) = Len(HumanAnswers(pSteps))

(***************************************************************************)
(* C24: comparison protocol                                                *)
(***************************************************************************)
\* the lines of the live history that hold the result of calculator(expr)
ResultsOf(expr) ==
  { i \in DOMAIN pLive : /\ pLive[i].kind = "used"
                         /\ pLive[i].tool = "calculator"
                         /\ pLive[i].args = expr }

\* the relation of two observed values
RelationOf(lv, rv) ==
  IF lv = rv THEN "equal to" ELSE IF NumLess(lv, rv) THEN "less than" ELSE "greater than"

\* a task "L vs R" with two distinct sides that are both expressions, no
\* keyword of another rule, the calculator among the candidates and never
\* failing, in a run that was not resumed
ComparisonRun ==
  /\ pTask.vs /\ pTask.leftOk /\ pTask.rightOk /\ ~pTask.sameSides
  /\ ~pTask.info
  /\ "calculator" \in pNames
  /\ ~pResumed
  /\ \A i \in DOMAIN pLive : pLive[i].kind # "failed"

\* C24: in a comparison run the final answer is proposed only when the history
\* holds exactly one result of calculator(L) and exactly one of calculator(R),
\* the one of L before the one of R, and the relation it states ("less than",
\* "equal to", "greater than") is the numeric order of the two observed values
C24_ComparisonProtocol ==
  (ComparisonRun /\ pAction.type = "final_answer") =>
    \E i \in ResultsOf("left_expr"), j \in ResultsOf("right_expr") :
      /\ ResultsOf("left_expr") = {i}
      /\ ResultsOf("right_expr") = {j}
      /\ i < j
      /\ pAction.args = RelationOf(pLive[i].value, pLive[j].value)

\* C24 without the relation: the order and the number of the calculator runs
C24_TwoRunsThenAnswer ==
  (ComparisonRun /\ pAction.type = "final_answer") =>
    \E i \in ResultsOf("left_expr"), j \in ResultsOf("right_expr") :
      /\ ResultsOf("left_expr") = {i}
      /\ ResultsOf("right_expr") = {j}
      /\ i < j
      /\ pAction.args \in {"less than", "equal to", "greater than"}

(***************************************************************************)
(* C25: a failed write of the run file                                     *)
(***************************************************************************)
\* the call has ended by an exception of the Run Store, in a run whose file
\* had been written before
StoreFailureEndedCall == pc = "aborted" /\ abort = "store_io" /\ disk.status # "none"

\* C25: once a write of the run file has failed and ended the call, the status
\* of the run is failed
C25_WriteFailureFails == StoreFailureEndedCall => run.status = "failed"

\* C25, what the code does instead: the status stays as the last assignment
\* left it
C25_StatusKept == StoreFailureEndedCall => run.status \in {"running", "paused", "done"}

(***************************************************************************)
(* C26: one tool.run at a time, the actions one after the other            *)
(***************************************************************************)
\* an invocation of tool.run is outstanding
RunOutstanding == exec.phase = "running"

\* the transition invokes tool.run
InvokesRun == exec'.phase = "running" /\ (exec.phase # "running" \/ exec'.runs # exec.runs)

\* tool.run is invoked only when no invocation is outstanding, and while one
\* is outstanding or its retry is pending nothing is appended, the planner is
\* not called and no other action begins
C26_InvocationStep ==
  /\ InvokesRun => ~RunOutstanding
  /\ (CallRunning /\ exec.phase \in {"running", "sleeping"})
       => /\ run'.steps = run.steps
          /\ plannerCalls' = plannerCalls
          /\ actNo' = actNo
          /\ pc' = "executing"

\* a step of a later action is appended only after the steps of the action
\* before it: what is appended belongs to the current action, which is not
\* smaller than the action of any step before
C26_AppendStep ==
  CallRunning =>
    \A i \in Appended : /\ run'.steps[i].act = actNo'
                         /\ \A j \in DOMAIN run.steps : run.steps[j].act <= actNo'

\* a new action begins only when the execution of the one before is over
C26_NextActionStep ==
  (CallRunning /\ actNo' # actNo) => (exec = NoExec /\ pc = "top")

\* C26: the loop is single-flight: at most one tool.run invocation is
\* outstanding, retries are sequential, and no step of action n+1 is appended
\* before all steps of action n
C26_SingleFlight ==
  [][/\ C26_InvocationStep
     /\ C26_AppendStep
     /\ C26_NextActionStep
     /\ exec'.phase \in {"running", "sleeping"} => pc' = "executing"]_vars

\* the tool of one action has failed after its retry, and the tool of a later
\* action is running
C26_Witness ==
  /\ RunOutstanding
  /\ Cardinality(toolRunActs) >= 2
  /\ \E i \in DOMAIN run.steps : /\ run.steps[i].a = StringOfError("run_failed")
                                   /\ run.steps[i].act < actNo

(***************************************************************************)
(* C27: persistence round trip                                             *)
(***************************************************************************)
\* appendStep has returned
AppendReturned == sLast.op = "appendStep" /\ sLast.ok

\* C27: once appendStep has returned, load yields the steps held in memory:
\* the same order, and for each step the same id, kind, ts and data; and
\* updatedAt is not smaller than before the append
C27_RoundTrip ==
  AppendReturned => /\ load(sFile).steps = sRun.steps
                    /\ sRun.updatedAt >= sLast.before

\* C27 for the properties that hold a value: the order, the ids, kinds and
\* timestamps, and every property of the data that is not undefined
C27_RoundTripDefined ==
  AppendReturned =>
    /\ Len(load(sFile).steps) = Len(sRun.steps)
    /\ \A i \in DOMAIN sRun.steps :
         LET mem == sRun.steps[i]
             got == load(sFile).steps[i]
         IN /\ got.id = mem.id /\ got.kind = mem.kind /\ got.ts = mem.ts
            /\ \A k \in DOMAIN mem.data :
                 mem.data[k] # Undefined => (k \in DOMAIN got.data /\ got.data[k] = mem.data[k])
            /\ DOMAIN got.data \subseteq DOMAIN mem.data
    /\ sRun.updatedAt >= sLast.before

(***************************************************************************)
(* C28: the tools that a search loads from source                          *)
(***************************************************************************)
\* the tools that the search of caller p has instantiated: it began their
\* load, and the load has put the tool into the cache
Instantiated(p) == { n \in user[p].loaded : n \in CacheNames(cache) }

\* C28: a search with top k instantiates at most k tools that were not
\* loaded before, the loads of the background preloading included
C28_SearchLoadsAtMostK ==
  \A p \in Users :
    user[p].op = "search" => Cardinality(Instantiated(p)) <= user[p].k

\* C28, the bound that the code keeps: the k of the result and the three of
\* preloadSimilar
C28_SearchLoadsAtMostKPlus3 ==
  \A p \in Users :
    user[p].op = "search" => Cardinality(user[p].loaded) <= user[p].k + 3

(***************************************************************************)
(* C29: the sweep of the idle entries                                      *)
(***************************************************************************)
\* the transition is a sweep: entries leave the cache and no load is involved
SweepStep == Len(cache') < Len(cache) /\ loadPromises' = loadPromises

\* the entry has been idle for more than IdleTimeout
IdleEntry(e) == now - e.lastAccess > IdleTimeout

\* C29: the sweep evicts exactly the entries that have been idle for more
\* than IdleTimeout and are not of category core; a core tool stays
C29_SweepSparesCore ==
  [][SweepStep =>
       cache' = SelectSeq(cache, LAMBDA e : ~IdleEntry(e) \/ categorize(e.name) = "core")]_vars

\* C29 without the exception for core: the sweep evicts exactly the idle
\* entries
C29_SweepEvictsIdle ==
  [][SweepStep => cache' = SelectSeq(cache, LAMBDA e : ~IdleEntry(e))]_vars

(***************************************************************************)
(* C30: the eviction policy                                                *)
(***************************************************************************)
\* both bounds hold for a new entry of size s
RoomFor(c, s) == Len(c) < MaxCacheSize /\ getTotalMemoryUsage(c) + s <= MaxCacheBytes

\* the first entry of the least score
MinScoreEntry(c) ==
  CHOOSE i \in DOMAIN c :
    \A j \in DOMAIN c : \/ Score(c[i]) < Score(c[j])
                         \/ (Score(c[i]) = Score(c[j]) /\ i <= j)

\* the policy: evict the entry of the least score until both bounds hold
RECURSIVE EvictedByPolicy(_, _)
EvictedByPolicy(c, s) ==
  IF RoomFor(c, s) \/ c = <<>> THEN c
  ELSE EvictedByPolicy(RemoveAt(c, MinScoreEntry(c)), s)

\* the transition makes room for the entry of a tool whose load has resolved
MakesRoom(name) == loadPromises[name] = "loading" /\ loadPromises'[name] = "inserting"

\* C30: before the insertion of an entry of size s the cache evicts the
\* entries of the least score one at a time, looks at both bounds after each
\* eviction, and stops as soon as both hold; it evicts nothing when both
\* hold already
C30_EvictionPolicy ==
  [][\A name \in CacheTools :
       MakesRoom(name) => cache' = EvictedByPolicy(cache, toolBytes[name])]_vars

\* C30, the parts that the code keeps: nothing is evicted when both bounds
\* hold, what is evicted is each time the entry of the least score, and the
\* number of entries is below MaxCacheSize afterwards
C30_EvictsLeastScoreFirst ==
  [][\A name \in CacheTools :
       MakesRoom(name) =>
         /\ RoomFor(cache, toolBytes[name]) => cache' = cache
         /\ Len(cache') < MaxCacheSize
         /\ \E n \in 0..Len(cache) :
              /\ Len(cache') = Len(cache) - n
              /\ \A i \in DOMAIN cache' : \E j \in DOMAIN cache : cache'[i] = cache[j]
              /\ \A i \in DOMAIN cache', j \in DOMAIN cache :
                   (\A m \in DOMAIN cache' : cache'[m] # cache[j])
                     => Score(cache[j]) <= Score(cache'[i])]_vars

(***************************************************************************)
(* C31: preloads are best-effort                                           *)
(***************************************************************************)
\* the preload of the call has met a failure
PreloadFailure ==
  \/ preloadCall.searchFailed
  \/ \E n \in CacheTools : preloadCall.loads[n] = "failed"

\* C31: when the embedding search or a tool load of a preload fails, the
\* preload still resolves and the registry call that made it succeeds
C31_PreloadsBestEffort ==
  (preloadCall.pc = "returned" /\ PreloadFailure) => preloadCall.outcome = "resolved"

\* C31 for the tool loads alone: a failed load of a preload reaches no caller
C31_LoadFailuresCaught ==
  (preloadCall.pc = "returned" /\ ~preloadCall.searchFailed) => preloadCall.outcome = "resolved"

(***************************************************************************)
(* C32: scan is idempotent                                                 *)
(***************************************************************************)
ScannedTwice == scan.pc = "idle" /\ scan.done = 2

\* C32: a second scan of the same directory leaves the catalog entries, the
\* tool list of every category and the result of listAll as the first scan
\* left them, and listAll holds no entry twice
C32_ScanIdempotent ==
  ScannedTwice =>
    /\ scan.catalog = scan.once.catalog
    /\ scan.categories = scan.once.categories
    /\ listAll(scan) = listAll([scan EXCEPT !.categories = scan.once.categories])
    /\ NoDuplicates(listAll(scan))

\* C32 for the catalog alone: the second scan leaves the catalog entries
C32_CatalogIdempotent == ScannedTwice => scan.catalog = scan.once.catalog

(***************************************************************************)
(* C33: the validity of the persisted embedding index                      *)
(***************************************************************************)
\* the three keys of the registry as it is
KeysNow ==
  [embed_key |-> IF embIndex.apiKey THEN "text-embedding-3-small" ELSE "local-512-v1",
   names_hash |-> <<"sha1", <<"json", [i \in DOMAIN embIndex.tools |-> embIndex.tools[i].name]>>>>,
   descs_hash |-> <<"sha1", <<"json", [i \in DOMAIN embIndex.tools |-> embIndex.tools[i].description]>>>>]

FileMatchesNow ==
  /\ embIndex.file.state = "ok"
  /\ embIndex.file.embed_key = KeysNow.embed_key
  /\ embIndex.file.names_hash = KeysNow.names_hash
  /\ embIndex.file.descs_hash = KeysNow.descs_hash

BuildStep == embIndex.pc = "idle" /\ embIndex'.op = "build"
EmbeddedStep == embIndex.pc = "embedding" /\ embIndex'.op = "embedded"

\* a build keeps the record exactly when its keys are the current ones
BuildRule ==
  BuildStep =>
    /\ embIndex'.b.embedKey = KeysNow.embed_key
    /\ embIndex'.b.namesHash = KeysNow.names_hash
    /\ embIndex'.b.descsHash = KeysNow.descs_hash
    /\ embIndex'.file = embIndex.file
    /\ IF FileMatchesNow
         THEN /\ embIndex'.pc = "idle"
              /\ ~embIndex'.embedded
              /\ embIndex'.vecs = embIndex.file.vecs
         ELSE /\ embIndex'.pc = "embedding"
              /\ embIndex'.embedded

\* the answer of the provider becomes the index and the record of the file
EmbeddedRule ==
  EmbeddedStep =>
    /\ embIndex'.pc = "idle"
    /\ embIndex'.vecs =
         [i \in DOMAIN embIndex.descs |->
            [text |-> embIndex.descs[i], by |-> embIndex.b.embedKey]]
    /\ embIndex'.file =
         [state |-> "ok", embed_key |-> embIndex.b.embedKey,
          names_hash |-> embIndex.b.namesHash,
          descs_hash |-> embIndex.b.descsHash, vecs |-> embIndex'.vecs]

\* C33: a build takes the vectors of the file as they are, without calling
\* the provider and without writing, exactly when the file is a record whose
\* three keys are those of the current names, descriptions and model; any
\* other build calls the provider for every description and writes a record
\* with the three keys that the build computed
C33_IndexValidity == [][BuildRule /\ EmbeddedRule]_vars

\* a build has taken, as they were, the vectors of a record edited by hand
\* whose keys are those of the two registered tools
C33_Witness ==
  /\ embIndex.op = "build"
  /\ embIndex.pc = "idle"
  /\ Len(embIndex.tools) = 2
  /\ embIndex.vecs = ForeignVecs

\* a build of two tools has found a record with other keys and replaced it
C33_Recomputed ==
  /\ embIndex.op = "embedded"
  /\ Len(embIndex.tools) = 2
  /\ embIndex.file.names_hash = KeysNow.names_hash

(***************************************************************************)
(* C34: write_file without overwrite                                       *)
(***************************************************************************)
WriteEnded == files.pc \in {"returned", "failed"}

\* C34: a call without overwrite for a path that exists fails and leaves the
\* content of the path; a call that writes has overwrite or found no file
C34_NeverClobbers ==
  /\ (WriteEnded /\ ~files.overwrite /\ files.before # Absent) =>
        files.pc = "failed" /\ files.fs[files.path] = files.before
  /\ files.pc = "writing" => files.overwrite \/ files.before = Absent

\* C34 for the calls that may write: with overwrite, or for a path that does
\* not exist and can be looked at, the call returns and the path holds the
\* content
C34_WritesWhenAllowed ==
  (WriteEnded /\ (files.overwrite \/ (files.before = Absent /\ files.err # "EACCES"))) =>
    files.pc = "returned" /\ files.fs[files.path] = files.content

(***************************************************************************)
(* C35: the precedence of flag, environment and default                    *)
(***************************************************************************)
\* flag before environment before default
precedence(flag, env, default) ==
  IF flag # "absent" THEN flag ELSE IF env # "unset" THEN env ELSE default

\* C35: the agent runs with the step limit and the top-k of the flag when
\* the flag is given, else of the environment variable when it is set, else
\* with 20 and 8
C35_Precedence ==
  cliRun.pc = "running" =>
    /\ cliRun.cfg.MAX_STEPS = precedence(cliRun.flagMax, cliRun.envMax, "20")
    /\ cliRun.topK = precedence(cliRun.flagTopk, cliRun.envTopk, "8")

\* C35 for the runs with both flags given, and for the runs without
\* environment variables
C35_FlagOrDefault ==
  (/\ cliRun.pc = "running"
   /\ \/ cliRun.flagMax # "absent" /\ cliRun.flagTopk # "absent"
      \/ cliRun.envMax = "unset" /\ cliRun.envTopk = "unset") =>
    /\ cliRun.cfg.MAX_STEPS = precedence(cliRun.flagMax, cliRun.envMax, "20")
    /\ cliRun.topK = precedence(cliRun.flagTopk, cliRun.envTopk, "8")

(***************************************************************************)
(* C36: a rejection on an open circuit leaves the breaker                  *)
(***************************************************************************)
CircuitOpenRejection == exec.phase = "none" /\ exec'.result = "circuit_open"

\* C36: the call that is rejected with circuit_open changes the breaker
\* state of no tool: the failure count and openedUntil of the tool stay
C36_RejectionLeavesBreaker ==
  [][CircuitOpenRejection =>
       /\ exec'.phase = "done"
       /\ breaker' = breaker
       /\ breaker'[exec'.tool].openedUntil > now]_vars

\* a call has been rejected within the cooldown of its tool
C36_Witness ==
  /\ exec.phase = "done"
  /\ exec.result = "circuit_open"
  /\ breaker[exec.tool].openedUntil > now

(***************************************************************************)
(* C37: executeParallel respects dependencies and the concurrency limit    *)
(***************************************************************************)
DependenciesOf(id) ==
  UNION { executor.tasks[i].dependencies :
            i \in { j \in DOMAIN executor.tasks : executor.tasks[j].id = id } }

C37_AtLimit ==
  /\ executor.set = "wide"
  /\ Cardinality({ id \in ExecIds : executor.status[id] = "running" }) = 3
  /\ executor.status["t3"] = "pending"

(***************************************************************************)
(* C38: executeParallel terminates                                         *)
(***************************************************************************)
\* the task lists whose dependencies are acyclic and name tasks of the list
Resolvable == executor.set \in {"wide", "diamond", "chain"}
InCall == executor.pc \in {"loop", "awaiting"}
SomeTaskFailed == \E id \in ExecIds : executor.status[id] = "failed"
AllResults ==
  /\ executor.pc = "returned"
  /\ executor.results = { executor.tasks[i].id : i \in DOMAIN executor.tasks }

\* a call with resolvable dependencies returns all results, unless a task fails
C38_Returns == (InCall /\ Resolvable) ~> (AllResults \/ SomeTaskFailed)

\* a call with a task that can never be ready ends with the deadlock error,
\* unless a task fails
C38_DeadlockDetected ==
  (InCall /\ ~Resolvable) ~>
    ((executor.pc = "threw" /\ executor.error = "deadlock") \/ SomeTaskFailed)

\* a call fails with the error of a task only if one of its own tasks failed
C38_LaterCallUnaffected ==
  [](executor.pc = "threw" /\ executor.error = "task_error" => SomeTaskFailed)

\* C38: a call on tasks with acyclic, resolvable dependencies that all
\* complete returns a result for every task; a call with a task that can
\* never be ready fails with the deadlock error; and no call fails because
\* of a task of an earlier call
C38_Terminates ==
  /\ C38_LaterCallUnaffected
  /\ C38_Returns
  /\ C38_DeadlockDetected

\* C38 for the first call only: it fails with a task's error only if one of
\* its tasks failed
C38_FirstCallOwnFailures ==
  (executor.calls = 1 /\ executor.pc = "threw" /\ executor.error = "task_error")
    => SomeTaskFailed

(***************************************************************************)
(* C39: an interrupt stops a collaboration                                 *)
(***************************************************************************)
Interrupted == collab.sigintAt # 0

\* the child that ran when the interrupt came invokes the planner no more
RunningChildPauses ==
  Interrupted =>
    /\ collab.planned[collab.sigintAt] = collab.plannedAtSigint
    /\ collab.i > collab.sigintAt =>
         collab.childStatus[collab.sigintAt] \in {"paused", "done"}

\* C39: after an interrupt during a collaboration the running child invokes
\* the planner no more, no later child invokes the planner or a tool, and
\* the parent run is not marked done
C39_InterruptStops ==
  /\ RunningChildPauses
  /\ Interrupted =>
       /\ \A a \in AgentIds :
            a > collab.sigintAt => collab.planned[a] = 0 /\ collab.toolRuns[a] = 0
       /\ collab.parentStatus # "done"

\* C39 for the running child alone
C39_RunningChildPauses == RunningChildPauses

(***************************************************************************)
(* C40: text_replace replaces every occurrence                             *)
(***************************************************************************)
\* whether find stands at the head of str
StandsAtHead(str, find, caseSensitive) ==
  /\ Len(find) <= Len(str)
  /\ \A j \in 1..Len(find) :
       IF caseSensitive THEN str[j] = find[j]
       ELSE (IF str[j] = "A" THEN "a" ELSE str[j]) = (IF find[j] = "A" THEN "a" ELSE find[j])

\* str with the occurrences of find, taken from left to right without
\* overlap, replaced
RECURSIVE Replaced(_, _, _, _)
Replaced(str, find, replace, caseSensitive) ==
  IF str = <<>> THEN <<>>
  ELSE IF StandsAtHead(str, find, caseSensitive)
    THEN replace \o Replaced(SubSeq(str, Len(find) + 1, Len(str)), find, replace, caseSensitive)
    ELSE <<Head(str)>> \o Replaced(Tail(str), find, replace, caseSensitive)

\* the number of those occurrences
RECURSIVE Occurrences(_, _, _)
Occurrences(str, find, caseSensitive) ==
  IF str = <<>> THEN 0
  ELSE IF StandsAtHead(str, find, caseSensitive)
    THEN 1 + Occurrences(SubSeq(str, Len(find) + 1, Len(str)), find, caseSensitive)
    ELSE Occurrences(Tail(str), find, caseSensitive)

ReplaceReturned == replaceCall.pc = "returned"
ReplaceIsRight ==
  /\ replaceCall.result =
       Replaced(replaceCall.text, replaceCall.find, replaceCall.replace,
                replaceCall.caseSensitive)
  /\ replaceCall.replacements =
       Occurrences(replaceCall.text, replaceCall.find, replaceCall.caseSensitive)

\* C40: a call without regex and with replaceAll returns the text with every
\* occurrence of find, from left to right and without overlap, replaced, and
\* the number of those occurrences
C40_ReplacesAll == ReplaceReturned => ReplaceIsRight

\* C40 for a replace of the length of find
C40_SameLength ==
  (ReplaceReturned /\ Len(replaceCall.replace) = Len(replaceCall.find)) => ReplaceIsRight

\* with an empty replace the loop does not count more replacements than the
\* text has characters
C40_DeletionEnds ==
  (replaceCall.pc = "loop" /\ replaceCall.replace = <<>>)
    => replaceCall.replacements <= Len(replaceCall.text)
====
